---- MODULE Spec2Model ----
(***************************************************************************)
(* A model of the ChefSue backend's retrieval-and-generation pipeline:     *)
(* the validator (utils/validators.js), the batch executor                 *)
(* (services/mealdbService.js), the generation client and its fallbacks    *)
(* (services/aiService.js) and the orchestrator with its session store     *)
(* (services/ragPipeline.js).                                              *)
(***************************************************************************)
EXTENDS Integers, Sequences, FiniteSets, TLC

(***************************************************************************)
(* JavaScript strings.  TLC strings support Len, SubSeq and \o, so the     *)
(* string functions the code uses are computed character by character.     *)
(***************************************************************************)
UpperChars == "ABCDEFGHIJKLMNOPQRSTUVWXYZ"

LowerChars == "abcdefghijklmnopqrstuvwxyz"

DigitChars == "0123456789"

CharAt(s, i) == SubSeq(s, i, i)

IsCharOf(c, alphabet) == \E k \in 1..Len(alphabet) : CharAt(alphabet, k) = c

LowerChar(c) ==
  IF IsCharOf(c, UpperChars)
    THEN CharAt(LowerChars, CHOOSE k \in 1..Len(UpperChars) : CharAt(UpperChars, k) = c)
    ELSE c

RECURSIVE toLowerCase(_)
\* String.prototype.toLowerCase
toLowerCase(s) ==
  IF Len(s) = 0 THEN ""
  ELSE LowerChar(CharAt(s, 1)) \o toLowerCase(SubSeq(s, 2, Len(s)))

\* String.prototype.includes
includes(s, sub) ==
  \E k \in 1..(Len(s) - Len(sub) + 1) : SubSeq(s, k, k + Len(sub) - 1) = sub

\* /^\d+$/.test(s)
IsNumericString(s) ==
  /\ Len(s) > 0
  /\ \A k \in 1..Len(s) : IsCharOf(CharAt(s, k), DigitChars)

RECURSIVE Repeat(_, _)
Repeat(s, n) == IF n = 0 THEN "" ELSE s \o Repeat(s, n - 1)

\* Template-literal rendering of an array index
IndexText(n) == IF n \in 0..9 THEN CharAt(DigitChars, n + 1) ELSE "10+"

(***************************************************************************)
(* JavaScript values: a value is undefined, a string or a number (null,    *)
(* arrays and objects are defined where they first occur).                 *)
(***************************************************************************)
Undefined == [t |-> "undefined"]

Str(s) == [t |-> "string", v |-> s]

Num(n) == [t |-> "number", v |-> n]

\* !!value
Truthy(x) ==
  \/ x.t = "string" /\ x.v # ""
  \/ x.t = "number" /\ x.v # 0
  \/ x.t = "object"

\* `${value}` and the string coercion of RegExp.prototype.test
ToText(x) ==
  IF x.t = "string" THEN x.v
  ELSE IF x.t = "number" THEN IndexText(x.v)
  ELSE x.t

(***************************************************************************)
(* utils/prompts.js: the vocabularies.                                     *)
(***************************************************************************)
MEALDB_CATEGORIES ==
  << "Beef", "Breakfast", "Chicken", "Dessert", "Goat", "Lamb",
     "Miscellaneous", "Pasta", "Pork", "Seafood", "Side", "Starter",
     "Vegan", "Vegetarian" >>

COMMON_INGREDIENTS ==
  << "Chicken", "Salmon", "Beef", "Pork", "Avocado", "Bacon", "Basil",
     "Basmati Rice", "Bread", "Broccoli", "Brown Rice", "Butter", "Carrots",
     "Cheddar Cheese", "Cheese", "Cherry Tomatoes", "Chicken Breast",
     "Chicken Stock", "Chickpeas", "Cilantro", "Coconut Milk", "Cod",
     "Coriander", "Cream", "Cucumber", "Cumin", "Eggs", "Extra Virgin Olive Oil",
     "Flour", "Garlic", "Ginger", "Honey", "Lemon", "Lime", "Milk", "Mushrooms",
     "Onion", "Parsley", "Pasta", "Potatoes", "Prawns", "Rice", "Salt",
     "Spinach", "Tomatoes", "Tuna", "Yogurt", "Black Pepper", "Olive Oil",
     "Soy Sauce", "Vinegar", "Wine", "Sugar", "Lamb", "Turkey", "Duck",
     "Asparagus", "Aubergine", "Bell Pepper", "Cabbage", "Celery", "Courgettes",
     "Green Beans", "Leeks", "Peas", "Red Onion", "Sweet Potato" >>

(***************************************************************************)
(* utils/validators.js                                                     *)
(***************************************************************************)
ALLOWED_ENDPOINTS == << "search.php", "filter.php", "lookup.php" >>

MaxLenS == 100

MaxLenI == 50

MaxLenC == 30

\* PARAM_RULES.i.enum and PARAM_RULES.c.enum: the lower-cased vocabularies
IngredientEnum == { toLowerCase(COMMON_INGREDIENTS[k]) : k \in 1..Len(COMMON_INGREDIENTS) }

CategoryEnum == { toLowerCase(MEALDB_CATEGORIES[k]) : k \in 1..Len(MEALDB_CATEGORIES) }

PARAM_RULES ==
  [ s |-> [type |-> "string", maxLength |-> MaxLenS, required |-> TRUE, enum |-> {}, hasEnum |-> FALSE],
    i |-> [type |-> "string", maxLength |-> MaxLenI, required |-> TRUE, enum |-> IngredientEnum, hasEnum |-> TRUE],
    c |-> [type |-> "string", maxLength |-> MaxLenC, required |-> TRUE, enum |-> CategoryEnum, hasEnum |-> TRUE] ]

MAX_API_CALLS == 5

\* The outcome of a validator: it returns, or throws a ValidationError
Passed == [ok |-> TRUE]

ValidationError(message, code) ==
  [ok |-> FALSE, name |-> "ValidationError", message |-> message, code |-> code]

validateApiCallStructure(apiCall) ==
  IF apiCall.t # "object"
    THEN ValidationError("API call must be an object", "INVALID_API_CALL")
    ELSE Passed

validateEndpoint(endpoint) ==
  IF ~Truthy(endpoint) \/ endpoint.t # "string"
    THEN ValidationError("Endpoint is required and must be a string", "INVALID_ENDPOINT")
  ELSE IF ~(\E k \in 1..Len(ALLOWED_ENDPOINTS) : ALLOWED_ENDPOINTS[k] = endpoint.v)
    THEN ValidationError("Endpoint not allowed: " \o endpoint.v, "ENDPOINT_NOT_ALLOWED")
  ELSE Passed

validateParams(params) ==
  IF params.t # "object"
    THEN ValidationError("Params are required and must be an object", "INVALID_PARAMS")
    ELSE Passed

validateParamBasics(paramName, value, rule) ==
  IF rule.required /\ ~Truthy(value)
    THEN ValidationError("Parameter \"" \o paramName \o "\" is required", "MISSING_REQUIRED_PARAM")
  ELSE IF rule.type = "string" /\ value.t # "string"
    THEN ValidationError("Parameter \"" \o paramName \o "\" must be a string", "INVALID_PARAM_TYPE")
  ELSE IF Len(value.v) > rule.maxLength
    THEN ValidationError("Parameter \"" \o paramName \o "\" too long. Maximum "
                           \o (IF paramName = "s" THEN "100" ELSE IF paramName = "i" THEN "50" ELSE "30")
                           \o " characters", "PARAM_TOO_LONG")
  ELSE Passed

validateParamEnum(paramName, value, rule) ==
  IF rule.hasEnum /\ paramName # "i"
    THEN IF toLowerCase(value.v) \notin rule.enum
           THEN ValidationError("Invalid " \o (IF paramName = "c" THEN "category" ELSE "ingredient")
                                  \o ": \"" \o value.v \o "\". Valid options include: ...",
                                "INVALID_ENUM_VALUE")
           ELSE Passed
    ELSE Passed

validateParam(paramName, value) ==
  IF paramName \notin {"s", "i", "c"}
    THEN ValidationError("Unknown parameter: " \o paramName, "UNKNOWN_PARAMETER")
  ELSE LET rule == PARAM_RULES[paramName]
           basics == validateParamBasics(paramName, value, rule)
       IN IF ~basics.ok THEN basics ELSE validateParamEnum(paramName, value, rule)

validateSearchParams(params) ==
  IF ~Truthy(params.s)
    THEN ValidationError("Search parameter \"s\" is required", "MISSING_SEARCH_PARAM")
    ELSE validateParam("s", params.s)

validateFilterParamPresence(hasIngredient, hasCategory) ==
  IF ~Truthy(hasIngredient) /\ ~Truthy(hasCategory)
    THEN ValidationError("Filter requires either ingredient (i) or category (c) parameter",
                         "MISSING_FILTER_PARAM")
  ELSE IF Truthy(hasIngredient) /\ Truthy(hasCategory)
    THEN ValidationError("Filter can only use one parameter: ingredient (i) or category (c)",
                         "TOO_MANY_FILTER_PARAMS")
  ELSE Passed

validateFilterParamValues(params, hasIngredient, hasCategory) ==
  LET ri == IF Truthy(hasIngredient) THEN validateParam("i", params.i) ELSE Passed
  IN IF ~ri.ok THEN ri
     ELSE IF Truthy(hasCategory) THEN validateParam("c", params.c) ELSE Passed

validateFilterParams(params) ==
  LET hasIngredient == params.i
      hasCategory == params.c
      presence == validateFilterParamPresence(hasIngredient, hasCategory)
  IN IF ~presence.ok THEN presence
     ELSE validateFilterParamValues(params, hasIngredient, hasCategory)

validateLookupParams(params) ==
  IF ~Truthy(params.i)
    THEN ValidationError("Lookup parameter \"i\" (meal ID) is required", "MISSING_LOOKUP_PARAM")
  ELSE IF ~IsNumericString(ToText(params.i))
    THEN ValidationError("Lookup parameter \"i\" must be a numeric meal ID", "INVALID_MEAL_ID")
  ELSE Passed

validateEndpointSpecificParams(endpoint, params) ==
  IF endpoint.v = "search.php" THEN validateSearchParams(params)
  ELSE IF endpoint.v = "filter.php" THEN validateFilterParams(params)
  ELSE IF endpoint.v = "lookup.php" THEN validateLookupParams(params)
  ELSE Passed

validateApiCall(apiCall) ==
  LET r1 == validateApiCallStructure(apiCall) IN
  IF ~r1.ok THEN r1 ELSE
  LET r2 == validateEndpoint(apiCall.endpoint) IN
  IF ~r2.ok THEN r2 ELSE
  LET r3 == validateParams(apiCall.params) IN
  IF ~r3.ok THEN r3 ELSE
  validateEndpointSpecificParams(apiCall.endpoint, apiCall.params)

\* A faulty variant of validateApiCalls that forgets the upper limit on the batch
validateApiCalls_NoMax(apiCalls) ==
  IF Len(apiCalls) = 0
    THEN ValidationError("At least one API call is required", "NO_API_CALLS")
  ELSE IF \E k \in 1..Len(apiCalls) : ~validateApiCall(apiCalls[k]).ok
    THEN LET index == CHOOSE k \in 1..Len(apiCalls) :
                        /\ ~validateApiCall(apiCalls[k]).ok
                        /\ \A j \in 1..(k - 1) : validateApiCall(apiCalls[j]).ok
             error == validateApiCall(apiCalls[index])
         IN ValidationError("Invalid API call at index " \o IndexText(index - 1) \o ": " \o error.message,
                            error.code)
  ELSE Passed

\* apiCalls is an array here: both callers hand it one (the Array.isArray test
\* of line 221 is decided by the orchestrator's own test before the call)
validateApiCalls(apiCalls) ==
  IF Len(apiCalls) = 0
    THEN ValidationError("At least one API call is required", "NO_API_CALLS")
  ELSE IF Len(apiCalls) > MAX_API_CALLS
    THEN ValidationError("Too many API calls. Maximum 5 allowed", "TOO_MANY_API_CALLS")
  ELSE IF \E k \in 1..Len(apiCalls) : ~validateApiCall(apiCalls[k]).ok
    THEN LET index == CHOOSE k \in 1..Len(apiCalls) :
                        /\ ~validateApiCall(apiCalls[k]).ok
                        /\ \A j \in 1..(k - 1) : validateApiCall(apiCalls[j]).ok
             error == validateApiCall(apiCalls[index])
         IN ValidationError("Invalid API call at index " \o IndexText(index - 1) \o ": " \o error.message,
                            error.code)
  ELSE Passed

(***************************************************************************)
(* The batches the validator is exercised on.  An API call is an object    *)
(* with an endpoint and params, or not an object at all.                   *)
(***************************************************************************)
NotAnObject == [t |-> "null"]

Params(s, i, c) == [t |-> "object", s |-> s, i |-> i, c |-> c]

ApiCall(endpoint, params) == [t |-> "object", endpoint |-> endpoint, params |-> params]

Search(text) == ApiCall(Str("search.php"), Params(Str(text), Undefined, Undefined))

FilterI(ingredient) == ApiCall(Str("filter.php"), Params(Undefined, Str(ingredient), Undefined))

FilterC(category) == ApiCall(Str("filter.php"), Params(Undefined, Undefined, Str(category)))

Lookup(id) == ApiCall(Str("lookup.php"), Params(Undefined, Str(id), Undefined))

\* The longest batch tried is one longer than this
MaxBatchLen == 5

EndpointValues ==
  { Str("search.php"), Str("filter.php"), Str("lookup.php"), Str("random.php"),
    Str("Filter.php"), Undefined }

SValues ==
  { Undefined, Str(""), Str("korean"), Str(Repeat("k", MaxLenS)), Str(Repeat("k", MaxLenS + 1)), Num(7) }

IValues ==
  { Undefined, Str(""), Str("Chicken"), Str("cHiCkEn"), Str("Unicorn"), Str("52772"), Str("52x"),
    Str(Repeat("9", MaxLenI)), Str(Repeat("9", MaxLenI + 1)), Str(Repeat("x", MaxLenI + 1)), Num(7) }

CValues ==
  { Undefined, Str(""), Str("Beef"), Str("vEgAn"), Str("Salmon"), Str("Unicorn"),
    Str(Repeat("c", MaxLenC + 1)) }

AllApiCalls ==
  { ApiCall(e, Params(s, i, c)) : e \in EndpointValues, s \in SValues, i \in IValues, c \in CValues }
    \cup { ApiCall(e, Undefined) : e \in EndpointValues } \cup { NotAnObject }

CoreApiCalls ==
  { Search("korean"), FilterI("Chicken"), FilterI("Unicorn"), FilterC("Beef"), FilterC("Unicorn"),
    Lookup("52772"), Lookup("52x"), ApiCall(Str("random.php"), Params(Undefined, Undefined, Undefined)) }

ValidatorBatches ==
  { << >> } \cup { << a >> : a \in AllApiCalls }
    \cup { << a, b >> : a \in CoreApiCalls, b \in CoreApiCalls }
    \cup { [k \in 1..n |-> IF k = p THEN a ELSE Search("korean")] :
             n \in 3..(MaxBatchLen + 1), p \in 1..(MaxBatchLen + 1), a \in CoreApiCalls }

(***************************************************************************)
(* The data source (TheMealDB behind axios) as services/mealdbService.js   *)
(* sees it: each GET ends in an error, in the client's timeout or in a     *)
(* response body.                                                          *)
(***************************************************************************)
Null == [t |-> "null"]

Arr(seq) == [t |-> "array", v |-> seq]

\* The number of records the data source holds for an ingredient
MaxRecords == 5

\* A record as filter.php returns it: id, name, no detail
Summary(n) ==
  [ idMeal |-> "5290" \o IndexText(n), strMeal |-> "Meal " \o IndexText(n),
    strCategory |-> "", strInstructions |-> "", strIngredients |-> << >> ]

\* A record as lookup.php and search.php return it: with instructions
Detail(id) ==
  [ idMeal |-> id, strMeal |-> "Recipe " \o id, strCategory |-> "Chicken",
    strInstructions |-> "Fry gently.", strIngredients |-> << "Chicken", " Garlic " >> ]

\* What the data source holds for a call
RecordsFor(call) ==
  IF call.endpoint.v = "filter.php"
    THEN IF Truthy(call.params.i)
           THEN [n \in 1..MaxRecords |-> Summary(n)]
           ELSE [n \in 1..2 |-> Summary(n + 5)]
  ELSE IF call.endpoint.v = "lookup.php" THEN << Detail(ToText(call.params.i)) >>
  ELSE << Detail("52772") >>

\* How one GET can end
UpstreamBehaviours(call) ==
  { [kind |-> "error", code |-> "ENOTFOUND", message |-> "getaddrinfo ENOTFOUND www.themealdb.com"],
    [kind |-> "never"],
    [kind |-> "body", data |-> [t |-> "object", meals |-> Null]],
    [kind |-> "body", data |-> [t |-> "object", meals |-> Arr(RecordsFor(call))]] }

\* The further endings the executor is exercised on by itself
RareUpstreamBehaviours(call) ==
  { [kind |-> "error", code |-> "ERR_BAD_RESPONSE", message |-> "Request failed with status code 500"],
    [kind |-> "body", data |-> [t |-> "undefined"]],
    [kind |-> "body", data |-> [t |-> "object", meals |-> Undefined]],
    [kind |-> "body", data |-> [t |-> "object", meals |-> Str("none")]],
    [kind |-> "body", data |-> [t |-> "object", meals |-> Arr(<< >>)]] }

\* axios with `timeout` set: a GET that never answers is aborted
axiosGet(upstream) ==
  IF upstream.kind = "never"
    THEN [ok |-> FALSE, error |-> [code |-> "ECONNABORTED", message |-> "timeout of 30000ms exceeded"]]
  ELSE IF upstream.kind = "error"
    THEN [ok |-> FALSE, error |-> [code |-> upstream.code, message |-> upstream.message]]
  ELSE [ok |-> TRUE, data |-> upstream.data]

createEmptyResponse(message) == [meals |-> Null, message |-> message, isEmpty |-> TRUE]

createValidResponse(meals) == [meals |-> Arr(meals), count |-> Len(meals), isEmpty |-> FALSE]

createUnexpectedResponse(data) ==
  [ meals |-> Null, message |-> "Unexpected response format from MealDB",
    rawData |-> data, isEmpty |-> TRUE ]

\* A faulty variant of processResponse that takes an absent meals field for
\* a null one
processResponse_AbsentIsNull(data, endpoint) ==
  IF data.t # "object" THEN createEmptyResponse("No data received from MealDB")
  ELSE IF data.meals.t \in {"null", "undefined"}
    THEN createEmptyResponse("No results found for " \o ToText(endpoint))
  ELSE IF data.meals.t = "array" THEN createValidResponse(data.meals.v)
  ELSE createUnexpectedResponse(data)

processResponse(data, endpoint) ==
  IF data.t # "object" THEN createEmptyResponse("No data received from MealDB")
  ELSE IF data.meals.t = "null" THEN createEmptyResponse("No results found for " \o ToText(endpoint))
  ELSE IF data.meals.t = "array" THEN createValidResponse(data.meals.v)
  ELSE createUnexpectedResponse(data)

determineErrorMessage(error) ==
  IF error.code = "ENOTFOUND" THEN "MealDB service is currently unavailable"
  ELSE IF error.code = "ECONNABORTED" THEN "MealDB request timed out"
  ELSE IF error.code = "ERR_BAD_RESPONSE" THEN "MealDB API error: 500 Internal Server Error"
  ELSE "Network error: " \o error.message

\* executeCall: the processed response, or a thrown Error
executeCall(endpoint, params, upstream) ==
  LET response == axiosGet(upstream) IN
  IF response.ok
    THEN [ok |-> TRUE, value |-> processResponse(response.data, endpoint)]
    ELSE [ok |-> FALSE, error |-> [name |-> "Error", message |-> determineErrorMessage(response.error)]]

createBatchErrorResult(error, call) ==
  [ error |-> TRUE, message |-> error.message,
    endpoint |-> call.endpoint, params |-> call.params ]

\* A faulty variant of BatchPromise that lets a failed call go without an entry of
\* its own: its marker is built from the first call of the batch
BatchPromise_FirstCall(apiCalls, k, upstream) ==
  LET call == apiCalls[k]
      r == executeCall(call.endpoint, call.params, upstream)
  IN IF r.ok THEN [status |-> "fulfilled", value |-> r.value]
     ELSE [status |-> "fulfilled", value |-> createBatchErrorResult(r.error, apiCalls[1])]

\* One promise of createBatchPromises, settled: always fulfilled, with the
\* response or with the failure marker
BatchPromise(apiCalls, k, upstream) ==
  LET call == apiCalls[k]
      r == executeCall(call.endpoint, call.params, upstream)
  IN IF r.ok THEN [status |-> "fulfilled", value |-> r.value]
     ELSE [status |-> "fulfilled", value |-> createBatchErrorResult(r.error, call)]

handleRejectedBatchResult(result, apiCall) ==
  [ error |-> TRUE, message |-> result.reason.message,
    endpoint |-> apiCall.endpoint, params |-> apiCall.params ]

\* results: the settled promises, in the order of apiCalls
processBatchResults(results, apiCalls) ==
  [ index \in 1..Len(results) |->
      IF results[index].status = "fulfilled"
        THEN results[index].value
        ELSE handleRejectedBatchResult(results[index], apiCalls[index]) ]

\* A batch in flight: the calls, how each GET will end, and the promises
\* settled so far
Pending == [status |-> "pending"]

NoBatch == [apiCalls |-> << >>, upstream |-> << >>, promises |-> << >>]

\* executeBatch up to its await: every call is dispatched at once
StartBatch(apiCalls, upstream) ==
  [ apiCalls |-> apiCalls, upstream |-> upstream,
    promises |-> [k \in 1..Len(apiCalls) |-> Pending] ]

SettlePromise(batch, k) ==
  [ batch EXCEPT !.promises[k] = BatchPromise(batch.apiCalls, k, batch.upstream[k]) ]

\* Promise.allSettled resolves when no promise is pending
AllSettled(batch) == \A k \in 1..Len(batch.promises) : batch.promises[k] # Pending

\* executeBatch after its await
BatchResults(batch) == processBatchResults(batch.promises, batch.apiCalls)

hasResults(response) ==
  /\ "meals" \in DOMAIN response
  /\ response.meals.t = "array"
  /\ Len(response.meals.v) > 0
  /\ ~response.isEmpty

isFilterResult(response) ==
  IF hasResults(response)
    THEN response.meals.v[1].strInstructions = ""
    ELSE FALSE

(***************************************************************************)
(* services/aiService.js.  A generated text is its characters together     *)
(* with what JSON.parse makes of them.                                     *)
(***************************************************************************)
NotJson == [t |-> "invalid"]

JsonObject(api_calls, direct_response) ==
  [t |-> "object", api_calls |-> api_calls, direct_response |-> direct_response]

Text(raw, parsed) == [raw |-> raw, parsed |-> parsed]

IsSpace(c) == c = " " \/ c = "\n"

RECURSIVE TrimStart(_)
TrimStart(s) ==
  IF Len(s) > 0 /\ IsSpace(CharAt(s, 1)) THEN TrimStart(SubSeq(s, 2, Len(s))) ELSE s

RECURSIVE TrimEnd(_)
TrimEnd(s) ==
  IF Len(s) > 0 /\ IsSpace(CharAt(s, Len(s))) THEN TrimEnd(SubSeq(s, 1, Len(s) - 1)) ELSE s

\* String.prototype.trim
trim(s) == TrimEnd(TrimStart(s))

Error(message) == [name |-> "Error", message |-> message]

\* A faulty variant of invokeModelSettles without the timeout side of the race
invokeModelSettles_NoTimeout(upstream) == upstream.kind # "never"

\* Promise.race([send, timeout]) settles whatever the backend does
invokeModelSettles(upstream) == TRUE

extractResponseText(parsed) ==
  IF parsed.shape \in {"outputs", "completion", "content", "text"} /\ parsed.text.raw # ""
    THEN [ok |-> TRUE, value |-> Text(trim(parsed.text.raw), parsed.text.parsed)]
    ELSE [ok |-> FALSE, error |-> Error("Invalid response format from AI model")]

\* invokeModel: the generated text, or a thrown error
invokeModel(upstream) ==
  IF upstream.kind = "never" THEN [ok |-> FALSE, error |-> Error("Request timeout")]
  ELSE IF upstream.kind = "error" THEN [ok |-> FALSE, error |-> Error(upstream.message)]
  ELSE IF upstream.body.t # "json"
    THEN [ok |-> FALSE, error |-> [name |-> "SyntaxError", message |-> "Unexpected token < in JSON at position 0"]]
  ELSE extractResponseText(upstream.body)

isValidJSON(str) == str.parsed.t # "invalid"

NullPropertyError ==
  [name |-> "TypeError", message |-> "Cannot read properties of null (reading 'api_calls')"]

\* A faulty variant of parseAnalysisResponse that returns whatever parses
parseAnalysisResponse_AnyJson(response) ==
  IF isValidJSON(response) /\ response.parsed.t = "null"
    THEN [ok |-> FALSE, error |-> NullPropertyError]
  ELSE IF isValidJSON(response)
    THEN [ok |-> TRUE, value |-> response.parsed]
  ELSE [ok |-> TRUE, value |-> JsonObject(Undefined, Str(response.raw))]

parseAnalysisResponse(response) ==
  IF isValidJSON(response) /\ response.parsed.t = "null"
    THEN [ok |-> FALSE, error |-> NullPropertyError]
  ELSE IF /\ isValidJSON(response)
          /\ response.parsed.t = "object"
          /\ response.parsed.api_calls.t = "array"
    THEN [ok |-> TRUE, value |-> response.parsed]
  ELSE [ok |-> TRUE, value |-> JsonObject(Undefined, Str(response.raw))]

analyzePipeline(upstream) ==
  LET response == invokeModel(upstream)
      parsed == parseAnalysisResponse(response.value)
  IN IF ~response.ok
       THEN [ok |-> FALSE, error |-> Error("Failed to analyze user intent: " \o response.error.message)]
     ELSE IF ~parsed.ok
       THEN [ok |-> FALSE, error |-> Error("Failed to analyze user intent: " \o parsed.error.message)]
     ELSE parsed

Min(a, b) == IF a < b THEN a ELSE b

NonEmptyMeals(result) ==
  "meals" \in DOMAIN result /\ result.meals.t = "array" /\ Len(result.meals.v) > 0

\* A faulty variant of LookupCall that looks the meal up by its name
LookupCall_ByName(meal) ==
  ApiCall(Str("lookup.php"), Params(Undefined, Str(meal.strMeal), Undefined))

LookupCall(meal) ==
  ApiCall(Str("lookup.php"), Params(Undefined, Str(meal.idMeal), Undefined))

RECURSIVE FallbackMeals(_, _, _)
\* The inner loop of createFallbackSelection over selectedMeals
FallbackMeals(selectedMeals, m, fallbackCalls) ==
  IF m > Len(selectedMeals) THEN fallbackCalls
  ELSE LET pushed == Append(fallbackCalls, LookupCall(selectedMeals[m]))
       IN IF Len(pushed) >= 3 THEN pushed ELSE FallbackMeals(selectedMeals, m + 1, pushed)

RECURSIVE FallbackResults(_, _, _)
\* The outer loop of createFallbackSelection over filterResults
FallbackResults(filterResults, r, fallbackCalls) ==
  IF r > Len(filterResults) THEN fallbackCalls
  ELSE IF NonEmptyMeals(filterResults[r])
    THEN LET meals == filterResults[r].meals.v
             selectedMeals == SubSeq(meals, 1, Min(3, Len(meals)))
             pushed == FallbackMeals(selectedMeals, 1, fallbackCalls)
         IN IF Len(pushed) >= 3 THEN pushed ELSE FallbackResults(filterResults, r + 1, pushed)
  ELSE FallbackResults(filterResults, r + 1, fallbackCalls)

RECURSIVE FallbackResults_NoCap(_, _, _)
FallbackResults_NoCap(filterResults, r, fallbackCalls) ==
  IF r > Len(filterResults) THEN fallbackCalls
  ELSE IF NonEmptyMeals(filterResults[r])
    THEN LET meals == filterResults[r].meals.v
         IN FallbackResults_NoCap(filterResults, r + 1,
              fallbackCalls \o [m \in 1..Min(3, Len(meals)) |-> LookupCall(meals[m])])
  ELSE FallbackResults_NoCap(filterResults, r + 1, fallbackCalls)

\* A faulty variant of createFallbackSelection that takes 3 of every result and
\* never stops at 3 calls
createFallbackSelection_NoCap(filterResults) == FallbackResults_NoCap(filterResults, 1, << >>)

createFallbackSelection(filterResults) == FallbackResults(filterResults, 1, << >>)

createFallbackSelectionResult(filterResults) ==
  JsonObject(Arr(createFallbackSelection(filterResults)), Undefined)

parseSelectionResponse(response, filterResults) ==
  IF isValidJSON(response) /\ response.parsed.t = "null"
    THEN [ok |-> FALSE, error |-> NullPropertyError]
  ELSE IF /\ isValidJSON(response)
          /\ response.parsed.t = "object"
          /\ response.parsed.api_calls.t = "array"
    THEN [ok |-> TRUE, value |-> response.parsed]
  ELSE [ok |-> TRUE, value |-> createFallbackSelectionResult(filterResults)]

\* selectRecipes never throws: every failure ends in the fallback selection
selectRecipes(filterResults, upstream) ==
  LET response == invokeModel(upstream)
      parsed == parseSelectionResponse(response.value, filterResults)
  IN IF ~response.ok THEN createFallbackSelectionResult(filterResults)
     ELSE IF ~parsed.ok THEN createFallbackSelectionResult(filterResults)
     ELSE parsed.value

RECURSIVE ExtractMeals(_, _, _)
ExtractMeals(meals, m, recipes) ==
  IF m > Len(meals) \/ Len(recipes) >= 3 THEN recipes
  ELSE ExtractMeals(meals, m + 1, Append(recipes, meals[m]))

RECURSIVE ExtractResults(_, _, _)
ExtractResults(mealData, r, recipes) ==
  IF r > Len(mealData) THEN recipes
  ELSE IF NonEmptyMeals(mealData[r])
    THEN LET taken == ExtractMeals(mealData[r].meals.v, 1, recipes)
         IN IF Len(taken) >= 3 THEN taken ELSE ExtractResults(mealData, r + 1, taken)
  ELSE ExtractResults(mealData, r + 1, recipes)

extractRecipesFromMealData(mealData) == ExtractResults(mealData, 1, << >>)

RECURSIVE JoinTrimmed(_, _)
\* extractMealIngredients(meal).join(', ') over strIngredient1..6
JoinTrimmed(ingredients, k) ==
  IF k > Min(6, Len(ingredients)) THEN ""
  ELSE LET rest == JoinTrimmed(ingredients, k + 1)
           this == trim(ingredients[k])
       IN IF this = "" THEN rest
          ELSE IF rest = "" THEN this
          ELSE this \o ", " \o rest

formatMealForFallback(meal) ==
  LET ingredients == JoinTrimmed(meal.strIngredients, 1)
  IN "**" \o meal.strMeal \o "**\n"
       \o (IF meal.strCategory # "" THEN "Category: " \o meal.strCategory \o "\n" ELSE "")
       \o (IF ingredients # "" THEN "Key ingredients: " \o ingredients \o "\n" ELSE "")
       \o "\n"

RECURSIVE FormatMeals(_, _)
FormatMeals(recipes, k) ==
  IF k > Len(recipes) THEN ""
  ELSE formatMealForFallback(recipes[k]) \o FormatMeals(recipes, k + 1)

buildFallbackResponseText(recipes) ==
  "Here are some recipes I found for you:\n\n" \o FormatMeals(recipes, 1)
    \o "Would you like detailed instructions for any of these recipes?"

NoRecipesMessage ==
  "I'm sorry, I couldn't find any recipes matching your request. Could you try asking about a specific dish or ingredient?"

NoDetailsMessage ==
  "I found some results but couldn't extract the recipe details. Please try a different search term."

createFallbackResponse(mealData) ==
  IF Len(mealData) = 0 THEN NoRecipesMessage
  ELSE LET recipes == extractRecipesFromMealData(mealData)
       IN IF Len(recipes) = 0 THEN NoDetailsMessage ELSE buildFallbackResponseText(recipes)

\* synthesizeResponse never throws on this data: a failure ends in the
\* fallback text
synthesizeResponse(mealData, upstream) ==
  LET response == invokeModel(upstream)
  IN IF response.ok THEN response.value.raw ELSE createFallbackResponse(mealData)

(***************************************************************************)
(* What the generation backend can answer in each phase.                   *)
(***************************************************************************)
RECURSIVE CallsJson(_, _)
\* The characters of a batch of calls as the backend writes them
CallsJson(apiCalls, k) ==
  IF k > Len(apiCalls) THEN ""
  ELSE LET call == apiCalls[k]
           one == "{\"endpoint\":\"" \o ToText(call.endpoint) \o "\",\"params\":{"
                    \o (IF Truthy(call.params.s) THEN "\"s\":\"" \o ToText(call.params.s) \o "\"" ELSE "")
                    \o (IF Truthy(call.params.i) THEN "\"i\":\"" \o ToText(call.params.i) \o "\"" ELSE "")
                    \o (IF Truthy(call.params.c) THEN "\"c\":\"" \o ToText(call.params.c) \o "\"" ELSE "")
                    \o "}}"
       IN one \o (IF k < Len(apiCalls) THEN "," ELSE "") \o CallsJson(apiCalls, k + 1)

BatchText(apiCalls) ==
  Text("{\"api_calls\":[" \o CallsJson(apiCalls, 1) \o "]}", JsonObject(Arr(apiCalls), Undefined))

RandomCall == ApiCall(Str("random.php"), Params(Undefined, Undefined, Undefined))

IntentBatches ==
  { << >>,
    << FilterI("Chicken") >>,
    << Search("korean") >>,
    << FilterC("Beef"), FilterI("Chicken") >>,
    << RandomCall >>,
    << FilterI("Chicken"), Lookup("52x") >>,
    [k \in 1..(MAX_API_CALLS + 1) |-> Search("korean")] }

SelectionBatches ==
  { << >>,
    << Lookup("52901") >>,
    << Lookup("52x") >>,
    << Lookup("52902"), RandomCall >>,
    [k \in 1..(MAX_API_CALLS + 1) |-> Lookup("52901")] }

PlainTexts ==
  { Text("Hello! I'm ChefSue, your cooking assistant.", NotJson),
    Text("  \n", NotJson),
    Text("null", Null),
    Text("{\"note\":\"no calls\"}", JsonObject(Undefined, Undefined)),
    Text("{\"api_calls\":\"none\"}", JsonObject(Str("none"), Undefined)) }

\* A JSON object with a list of calls and a direct_response that is not text
CallsAndNumberText ==
  Text("{\"api_calls\":[" \o CallsJson(<< Search("korean") >>, 1) \o "],\"direct_response\":404}",
       JsonObject(Arr(<< Search("korean") >>), Num(404)))

IntentTexts == PlainTexts \cup { BatchText(b) : b \in IntentBatches } \cup { CallsAndNumberText }

SelectionTexts == PlainTexts \cup { BatchText(b) : b \in SelectionBatches }

SynthesisTexts == { Text(" Here are three chicken recipes for you. ", NotJson) }

\* How one call of the backend can end: an error of the client, no answer at
\* all, a body that is not JSON, an envelope without text, an envelope with text
GenUpstreams(texts) ==
  { [kind |-> "error", message |-> "The service is temporarily unavailable"],
    [kind |-> "error", message |-> "The security token included in the request is invalid"],
    [kind |-> "never"],
    [kind |-> "body", body |-> [t |-> "html"]],
    [kind |-> "body", body |-> [t |-> "json", shape |-> "none", text |-> Text("", NotJson)]] }
  \cup { [kind |-> "body", body |-> [t |-> "json", shape |-> "outputs", text |-> x]] : x \in texts }

NoUpstream == [kind |-> "none"]

(***************************************************************************)
(* services/ragPipeline.js: the session store.  Sessions are objects: the  *)
(* store maps an id to a reference into the heap of session objects.       *)
(***************************************************************************)
maxConversationLength == 10

\* No id given: null, undefined or the empty string
NoSessionId == ""

UuidText(n) == "uuid-" \o IndexText(n)

Message(role, content, timestamp) == [role |-> role, content |-> content, timestamp |-> timestamp]

\* A faulty variant of createSession that never takes the id it is given
createSession_AlwaysUuid(store, id) ==
  LET sessionId == UuidText(store.uuids + 1)
      session == [ id |-> sessionId, history |-> << >>, lastMealData |-> Null,
                   createdAt |-> store.now, lastActivity |-> store.now ]
      ref == Len(store.heap) + 1
  IN [ sessions |-> [k \in DOMAIN store.sessions \cup {sessionId} |->
                       IF k = sessionId THEN ref ELSE store.sessions[k]],
       heap |-> Append(store.heap, session),
       uuids |-> store.uuids + 1,
       now |-> store.now,
       session |-> ref ]

\* createSession(id): the store, heap and uuid count after it, and the
\* reference of the session made
createSession(store, id) ==
  LET sessionId == IF id # NoSessionId THEN id ELSE UuidText(store.uuids + 1)
      session == [ id |-> sessionId, history |-> << >>, lastMealData |-> Null,
                   createdAt |-> store.now, lastActivity |-> store.now ]
      ref == Len(store.heap) + 1
  IN [ sessions |-> [k \in DOMAIN store.sessions \cup {sessionId} |->
                       IF k = sessionId THEN ref ELSE store.sessions[k]],
       heap |-> Append(store.heap, session),
       uuids |-> IF id # NoSessionId THEN store.uuids ELSE store.uuids + 1,
       now |-> store.now,
       session |-> ref ]

\* A faulty variant of getSession that never looks the id up
getSession_AlwaysCreate(store, sessionId) == createSession(store, sessionId)

\* A faulty variant of getSession that leaves lastActivity as it is
getSession_NoTouch(store, sessionId) ==
  IF sessionId = NoSessionId THEN createSession(store, NoSessionId)
  ELSE IF sessionId \notin DOMAIN store.sessions THEN createSession(store, sessionId)
  ELSE [ sessions |-> store.sessions, heap |-> store.heap, uuids |-> store.uuids,
         now |-> store.now, session |-> store.sessions[sessionId] ]

getSession(store, sessionId) ==
  IF sessionId = NoSessionId THEN createSession(store, NoSessionId)
  ELSE IF sessionId \notin DOMAIN store.sessions THEN createSession(store, sessionId)
  ELSE LET ref == store.sessions[sessionId]
       IN [ sessions |-> store.sessions,
            heap |-> [store.heap EXCEPT ![ref].lastActivity = store.now],
            uuids |-> store.uuids,
            now |-> store.now,
            session |-> ref ]

\* A faulty variant of LastN that keeps the oldest n
LastN_Oldest(seq, n) == IF Len(seq) > n THEN SubSeq(seq, 1, n) ELSE seq

\* A faulty variant of LastN that keeps everything
LastN_NoTrim(seq, n) == seq

LastN(seq, n) == IF Len(seq) > n THEN SubSeq(seq, Len(seq) - n + 1, Len(seq)) ELSE seq

\* A faulty variant of addMessage that pushes onto the session objects that
\* carry the id, in the store or not
addMessage_HeldObject(store, sessionId, userMessage, assistantResponse) ==
  [ ref \in DOMAIN store.heap |->
      IF store.heap[ref].id # sessionId THEN store.heap[ref]
      ELSE [ store.heap[ref] EXCEPT
               !.history = LastN(@ \o << Message("user", userMessage, store.now),
                                         Message("assistant", assistantResponse, store.now) >>,
                                 maxConversationLength * 2),
               !.lastActivity = store.now ] ]

\* A faulty variant of addMessage that writes the history anew
addMessage_Replace(store, sessionId, userMessage, assistantResponse) ==
  IF sessionId \notin DOMAIN store.sessions THEN store.heap
  ELSE LET ref == store.sessions[sessionId]
       IN [ store.heap EXCEPT ![ref].history = << Message("user", userMessage, store.now),
                                                  Message("assistant", assistantResponse, store.now) >>,
                              ![ref].lastActivity = store.now ]

\* A faulty variant of addMessage that makes a session for an id the store
\* does not hold
addMessage_CreatesSession(store, sessionId, userMessage, assistantResponse) ==
  LET pair == << Message("user", userMessage, store.now),
                 Message("assistant", assistantResponse, store.now) >>
  IN IF sessionId \notin DOMAIN store.sessions
     THEN Append(store.heap, [ id |-> sessionId, history |-> pair, lastMealData |-> Null,
                               createdAt |-> store.now, lastActivity |-> store.now ])
     ELSE LET ref == store.sessions[sessionId]
          IN [ store.heap EXCEPT ![ref].history = LastN(@ \o pair, maxConversationLength * 2),
                                 ![ref].lastActivity = store.now ]

\* A faulty variant of addMessage that pushes the assistant message alone
addMessage_AssistantOnly(store, sessionId, userMessage, assistantResponse) ==
  IF sessionId \notin DOMAIN store.sessions THEN store.heap
  ELSE LET ref == store.sessions[sessionId]
           pushed == Append(store.heap[ref].history, Message("assistant", assistantResponse, store.now))
       IN [ store.heap EXCEPT ![ref].history = LastN(pushed, maxConversationLength * 2),
                              ![ref].lastActivity = store.now ]

\* A faulty variant of addMessage that pushes the answer before the request
addMessage_AssistantFirst(store, sessionId, userMessage, assistantResponse) ==
  IF sessionId \notin DOMAIN store.sessions THEN store.heap
  ELSE LET ref == store.sessions[sessionId]
           pushed == store.heap[ref].history
                       \o << Message("assistant", assistantResponse, store.now),
                             Message("user", userMessage, store.now) >>
       IN [ store.heap EXCEPT ![ref].history = LastN(pushed, maxConversationLength * 2),
                              ![ref].lastActivity = store.now ]

\* addMessage: the heap after it
addMessage(store, sessionId, userMessage, assistantResponse) ==
  IF sessionId \notin DOMAIN store.sessions THEN store.heap
  ELSE LET ref == store.sessions[sessionId]
           pushed == store.heap[ref].history
                       \o << Message("user", userMessage, store.now),
                             Message("assistant", assistantResponse, store.now) >>
       IN [ store.heap EXCEPT ![ref].history = LastN(pushed, maxConversationLength * 2),
                              ![ref].lastActivity = store.now ]

\* Minutes a session may stay idle (the clock of the model counts minutes)
sessionTimeoutMinutes == 30

\* Minutes between two sweeps of the timer started by startCleanup
CleanupIntervalMinutes == 15

\* A faulty variant of cleanupExpiredSessions that measures from the creation
cleanupExpiredSessions_ByCreation(store) ==
  LET expiredSessions ==
        { sessionId \in DOMAIN store.sessions :
            store.now - store.heap[store.sessions[sessionId]].createdAt > sessionTimeoutMinutes }
  IN [ sessionId \in DOMAIN store.sessions \ expiredSessions |-> store.sessions[sessionId] ]

\* cleanupExpiredSessions: the store map after the sweep; the session objects
\* stay with whoever still holds them
cleanupExpiredSessions(store) ==
  LET expiredSessions ==
        { sessionId \in DOMAIN store.sessions :
            store.now - store.heap[store.sessions[sessionId]].lastActivity > sessionTimeoutMinutes }
  IN [ sessionId \in DOMAIN store.sessions \ expiredSessions |-> store.sessions[sessionId] ]

(***************************************************************************)
(* services/ragPipeline.js: the orchestrator.                              *)
(***************************************************************************)
HasError(result) == "error" \in DOMAIN result /\ result.error

\* A faulty variant of the filter that keeps the failure markers
WithoutErrors_KeepsAll(results) == results

\* initialData.filter(result => !result.error)
WithoutErrors(results) ==
  LET F[k \in 0..Len(results)] ==
        IF k = 0 THEN << >>
        ELSE IF ~HasError(results[k]) THEN Append(F[k - 1], results[k]) ELSE F[k - 1]
  IN F[Len(results)]

\* A faulty variant of hasFilterResults that takes any non-empty result
hasFilterResults_Any(mealData) ==
  \E k \in 1..Len(mealData) : NonEmptyMeals(mealData[k])

hasFilterResults(mealData) ==
  \E k \in 1..Len(mealData) : NonEmptyMeals(mealData[k]) /\ isFilterResult(mealData[k])

RECURSIVE CountFrom(_, _)
CountFrom(mealData, k) ==
  IF k > Len(mealData) THEN 0
  ELSE (IF "meals" \in DOMAIN mealData[k] /\ mealData[k].meals.t = "array"
          THEN Len(mealData[k].meals.v) ELSE 0) + CountFrom(mealData, k + 1)

countRecipes(mealData) == CountFrom(mealData, 1)

createErrorResponse(error) ==
  IF includes(error.message, "validation")
    THEN "I'm sorry, but there seems to be an issue with your request. Could you please rephrase it or try asking about a specific dish or ingredient?"
  ELSE IF includes(error.message, "unavailable")
    THEN "I'm experiencing some technical difficulties connecting to the recipe database. Please try again in a few moments."
  ELSE IF includes(error.message, "timeout")
    THEN "The request is taking longer than expected. Please try asking about something more specific."
  ELSE "I'm sorry, I encountered an error while processing your request. Could you please try again or ask about something else?"

\* The validation the orchestrator runs on a batch before it executes it
ValidateBeforeExecute_Skipped(apiCalls) == Passed

\* A faulty variant of ValidateBeforeExecute that checks every call of the
\* batch and not their number
ValidateBeforeExecute_EachCallOnly(apiCalls) == validateApiCalls_NoMax(apiCalls)

ValidateBeforeExecute(apiCalls) == validateApiCalls(apiCalls)

(***************************************************************************)
(* The validation of a chat request (utils/validators.js) and the answer   *)
(* of the error middleware to what it throws (middleware/errorHandler.js). *)
(***************************************************************************)
MAX_MESSAGE_LENGTH == 500

WordChars == LowerChars \o UpperChars \o DigitChars \o "_"

\* What "." does not match in a regular expression without the s flag
IsLineTerminator(c) == c = "\n" \/ c = "\r"

\* /<tag[^>]*>.*?<\/tag>/gi.test(message)
MatchesElement(message, tag) ==
  LET s == toLowerCase(message)
      open == "<" \o tag
      close == "</" \o tag \o ">"
  IN \E i \in 1..(Len(s) - Len(open) + 1) :
       /\ SubSeq(s, i, i + Len(open) - 1) = open
       /\ \E j \in (i + Len(open))..Len(s) :
            /\ CharAt(s, j) = ">"
            /\ \A m \in (i + Len(open))..(j - 1) : CharAt(s, m) # ">"
            /\ \E k \in (j + 1)..(Len(s) - Len(close) + 1) :
                 /\ SubSeq(s, k, k + Len(close) - 1) = close
                 /\ \A m \in (j + 1)..(k - 1) : ~IsLineTerminator(CharAt(s, m))

\* /on\w+\s*=/gi.test(message)
MatchesHandlerAttribute(message) ==
  LET s == toLowerCase(message)
  IN \E i \in 1..(Len(s) - 1) :
       /\ SubSeq(s, i, i + 1) = "on"
       /\ \E j \in (i + 2)..Len(s) :
            /\ \A m \in (i + 2)..j : IsCharOf(CharAt(message, m), WordChars)
            /\ \E k \in (j + 1)..Len(s) :
                 /\ CharAt(s, k) = "="
                 /\ \A m \in (j + 1)..(k - 1) : IsSpace(CharAt(s, m))

validateMessageBasics(message) ==
  IF message.t # "string" \/ message.v = ""
    THEN ValidationError("Message is required and must be a string", "INVALID_MESSAGE")
  ELSE IF Len(message.v) > MAX_MESSAGE_LENGTH
    THEN ValidationError("Message too long. Maximum 500 characters", "MESSAGE_TOO_LONG")
  ELSE Passed

validateMessageSecurity(message) ==
  IF \/ MatchesElement(message.v, "script")
     \/ MatchesElement(message.v, "iframe")
     \/ includes(toLowerCase(message.v), "javascript:")
     \/ MatchesHandlerAttribute(message.v)
    THEN ValidationError("Message contains potentially dangerous content", "SECURITY_VIOLATION")
    ELSE Passed

\* Returns [ok |-> TRUE, value |-> the trimmed message] or the error thrown
validateUserMessage(message) ==
  IF ~validateMessageBasics(message).ok THEN validateMessageBasics(message)
  ELSE IF ~validateMessageSecurity(message).ok THEN validateMessageSecurity(message)
  ELSE [ok |-> TRUE, value |-> trim(message.v)]

\* The session id is a string here; an absent one is the empty string
validateSessionId(sessionId) ==
  IF sessionId = NoSessionId THEN [ok |-> TRUE, value |-> NoSessionId]
  ELSE IF Len(sessionId) < 8 \/ Len(sessionId) > 36
    THEN ValidationError("Session ID must be a string between 8-36 characters", "INVALID_SESSION_ID")
  ELSE IF \E k \in 1..Len(sessionId) :
            ~IsCharOf(CharAt(sessionId, k), LowerChars \o UpperChars \o DigitChars \o "-_")
    THEN ValidationError("Session ID can only contain letters, numbers, hyphens, and underscores",
                         "INVALID_SESSION_ID")
  ELSE [ok |-> TRUE, value |-> sessionId]

\* The status and the code errorHandler answers with
errorHandler(err) ==
  IF err.name = "ValidationError"
    THEN [status |-> 400, code |-> err.code]
    ELSE [status |-> 500, code |-> "INTERNAL_SERVER_ERROR"]

Procs == {"p1", "p2"}

\* The invocations that run in Spec
SpecProcs == {"p1"}

UserMessages == {"dishes with chicken"}

KnownSessionId == "session-known"

SessionIdChoices == {NoSessionId, KnownSessionId}

NoOutcome == [none |-> TRUE]

NoErrorCaught == [name |-> "none", message |-> ""]

\* No chat request: the invocation was not started through the route
NoChat == [body |-> Undefined, status |-> 0, code |-> "none"]

Idle ==
  [ pc |-> "idle", userMessage |-> "", sessionId |-> NoSessionId, session |-> 0,
    gen |-> NoUpstream, apiCalls |-> << >>, batch |-> NoBatch,
    initialData |-> << >>, successfulData |-> << >>, totalApiCalls |-> 0,
    selectionCalls |-> << >>, detailData |-> << >>, phase2Executed |-> FALSE,
    allMealData |-> << >>, outcome |-> NoOutcome,
    \* history of the invocation, for the properties
    terminal |-> "none", caught |-> NoErrorCaught, genCalls |-> << >>,
    intentBatch |-> Null, executed |-> << >>, refinementFailure |-> "none",
    \* for each generation call of genCalls whether invokeModel returned, and
    \* for the interpretation what it returned
    replies |-> << >>,
    \* the invocations that were in flight when this one started
    startedBeside |-> {},
    \* the timer of timeoutHandler fired for the request of this invocation
    timedOut |-> FALSE,
    \* the chat request this invocation serves and the error answered to it
    chat |-> NoChat ]

VARIABLES vInput, vBatch, vResult, vPc, bCalls, bBatch, bResults, bPc,
          sessions, heap, uuids, now, inv, sLog, sLast

validatorVars == << vInput, vBatch, vResult, vPc >>

executorVars == << bCalls, bBatch, bResults, bPc >>

\* What the services exercised on their own keep: the validator, the
\* executor, and the record of the calls made on the session store
aloneVars == << vInput, vBatch, vResult, vPc, bCalls, bBatch, bResults, bPc, sLog, sLast >>

storeVars == << sessions, heap, uuids, now >>

pipelineVars == << sessions, heap, uuids, now, inv, sLog, sLast >>

vars == << vInput, vBatch, vResult, vPc, bCalls, bBatch, bResults, bPc,
           sessions, heap, uuids, now, inv, sLog, sLast >>

Store == [sessions |-> sessions, heap |-> heap, uuids |-> uuids, now |-> now]

ValidatorIdle ==
  /\ vInput = << >>
  /\ vBatch = << >>
  /\ vResult = Passed
  /\ vPc = "off"

ExecutorIdle ==
  /\ bCalls = << >>
  /\ bBatch = NoBatch
  /\ bResults = << >>
  /\ bPc = "off"

\* No call made on the session store on its own
NoStoreCall ==
  [ op |-> "none", sessionId |-> NoSessionId, session |-> 0, appended |-> 0,
    revived |-> NoSessionId ]

StoreAloneIdle ==
  /\ sLog = << >>
  /\ sLast = NoStoreCall

\* A store as earlier requests leave it: empty, or holding one session with
\* one turn of history
PipelineInit ==
  /\ StoreAloneIdle
  /\ now = 1
  /\ uuids = 0
  /\ \/ sessions = << >> /\ heap = << >>
     \/ /\ sessions = [k \in {KnownSessionId} |-> 1]
        /\ heap = << [ id |-> KnownSessionId,
                       history |-> << Message("user", Str("hello"), 0),
                                      Message("assistant", Str("Hello! I'm ChefSue, your cooking assistant."), 0) >>,
                       lastMealData |-> Null, createdAt |-> 0, lastActivity |-> 0 ] >>
  /\ inv = [p \in Procs |-> Idle]

PipelineIdle ==
  /\ StoreAloneIdle
  /\ now = 1
  /\ uuids = 0
  /\ sessions = << >>
  /\ heap = << >>
  /\ inv = [p \in Procs |-> Idle]

(***************************************************************************)
(* The validator on its own: one batch in, a verdict out.                  *)
(***************************************************************************)
ValidatorInit ==
  /\ vInput \in ValidatorBatches
  /\ vBatch = vInput
  /\ vResult = Passed
  /\ vPc = "ready"
  /\ ExecutorIdle
  /\ PipelineIdle

\* validateApiCalls(apiCalls); the array is read, never written
Validate ==
  /\ vPc = "ready"
  /\ vResult' = validateApiCalls(vBatch)
  /\ vPc' = "done"
  /\ UNCHANGED << vInput, vBatch, executorVars, pipelineVars >>

ValidatorNext == Validate

ValidatorSpec == ValidatorInit /\ [][ValidatorNext]_vars

(***************************************************************************)
(* The batch executor on its own: a batch in, its results out.             *)
(***************************************************************************)
\* The longest batch handed to the executor on its own
MaxOps == 3

ExecutorCalls ==
  << FilterI("Chicken"), Lookup("52772"), Search("korean"), FilterC("Beef"),
     Lookup("52901"), Search("korean") >>

ExecutorInit ==
  /\ bCalls \in { SubSeq(ExecutorCalls, 1, n) : n \in 0..MaxOps }
  /\ bBatch = NoBatch
  /\ bResults = << >>
  /\ bPc = "ready"
  /\ ValidatorIdle
  /\ PipelineIdle

\* executeBatch(apiCalls) up to its await; an empty batch returns at once
ExecuteBatch ==
  /\ bPc = "ready"
  /\ \/ /\ Len(bCalls) = 0
        /\ bPc' = "returned"
        /\ UNCHANGED << bBatch, bResults >>
     \/ /\ Len(bCalls) > 0
        /\ \E upstream \in [1..Len(bCalls) ->
                              UNION { UpstreamBehaviours(bCalls[k]) \cup RareUpstreamBehaviours(bCalls[k])
                                        : k \in 1..Len(bCalls) }] :
             /\ \A k \in 1..Len(bCalls) :
                  upstream[k] \in UpstreamBehaviours(bCalls[k]) \cup RareUpstreamBehaviours(bCalls[k])
             /\ bBatch' = StartBatch(bCalls, upstream)
        /\ bPc' = "awaiting"
        /\ UNCHANGED bResults
  /\ UNCHANGED << bCalls, validatorVars, pipelineVars >>

\* One call of the batch settles
ExecutorCallSettled ==
  /\ bPc = "awaiting"
  /\ \E k \in 1..Len(bBatch.promises) :
       /\ bBatch.promises[k] = Pending
       /\ bBatch' = SettlePromise(bBatch, k)
  /\ UNCHANGED << bCalls, bResults, bPc, validatorVars, pipelineVars >>

\* Promise.allSettled resolves and executeBatch returns
ExecuteBatchReturns ==
  /\ bPc = "awaiting"
  /\ AllSettled(bBatch)
  /\ bResults' = BatchResults(bBatch)
  /\ bPc' = "returned"
  /\ UNCHANGED << bCalls, bBatch, validatorVars, pipelineVars >>

ExecutorNext == ExecuteBatch \/ ExecutorCallSettled \/ ExecuteBatchReturns

ExecutorSpec == ExecutorInit /\ [][ExecutorNext]_vars

(***************************************************************************)
(* The session store on its own: getSession, addMessage, the sweep and the *)
(* clock.  sLog keeps, for every session object, all the messages ever     *)
(* pushed to it; sLast keeps the last call and what it returned.           *)
(***************************************************************************)
\* Calls of addMessage made on the store on its own
MaxAppends == 2

\* Session objects made
MaxSessions == 2

\* Steps of the clock
MaxTicks == 2

RECURSIVE NumberText(_)
\* A natural number in decimal
NumberText(n) ==
  IF n < 10 THEN CharAt(DigitChars, n + 1)
  ELSE NumberText(n \div 10) \o CharAt(DigitChars, (n % 10) + 1)

\* Turn number n as a request leaves it in the history
Turn(n, timestamp) ==
  << Message("user", Str("question " \o NumberText(n)), timestamp),
     Message("assistant", Str("answer " \o NumberText(n)), timestamp) >>

RECURSIVE Turns(_, _)
\* The turns 1..n
Turns(n, timestamp) == IF n = 0 THEN << >> ELSE Turns(n - 1, timestamp) \o Turn(n, timestamp)

\* The ids callers send
StoreIds == {KnownSessionId, "session-new"}

\* A store as earlier requests leave it: empty, or holding one session with
\* no turn yet, with one turn less than half the window, or with one turn
\* less than the window
StoreInit ==
  /\ now = 1
  /\ uuids = 0
  /\ \/ sessions = << >> /\ heap = << >> /\ sLog = << >>
     \/ \E n \in {0, maxConversationLength \div 2 - 1, maxConversationLength - 1} :
          /\ sessions = [k \in {KnownSessionId} |-> 1]
          /\ heap = << [ id |-> KnownSessionId, history |-> Turns(n, 0),
                         lastMealData |-> Null, createdAt |-> 0, lastActivity |-> 0 ] >>
          /\ sLog = << Turns(n, 0) >>
  /\ sLast = NoStoreCall
  /\ inv = [p \in Procs |-> Idle]
  /\ ValidatorIdle
  /\ ExecutorIdle

\* getSession(sessionId)
StoreGetSession ==
  \E sessionId \in StoreIds \cup {NoSessionId} :
    \E got \in { getSession(Store, sessionId) } :
      /\ Len(got.heap) <= MaxSessions
      /\ sessions' = got.sessions
      /\ heap' = got.heap
      /\ uuids' = got.uuids
      /\ sLog' = IF Len(got.heap) > Len(heap) THEN Append(sLog, << >>) ELSE sLog
      /\ sLast' = [ op |-> "getSession", sessionId |-> sessionId, session |-> got.session,
                    appended |-> sLast.appended,
                    \* the last id asked for after its session had been
                    \* idle for longer than the timeout
                    revived |-> IF /\ sessionId \in DOMAIN sessions
                                   /\ now - heap[sessions[sessionId]].lastActivity > sessionTimeoutMinutes
                                  THEN sessionId ELSE sLast.revived ]
      /\ UNCHANGED << now, inv, validatorVars, executorVars >>

\* addMessage(sessionId, userMessage, assistantResponse) with the texts of
\* the next turn
StoreAddMessage ==
  /\ sLast.appended < MaxAppends
  /\ \E sessionId \in StoreIds \cup { UuidText(k) : k \in 1..uuids } :
       \E n \in { maxConversationLength + sLast.appended } :
         /\ heap' = addMessage(Store, sessionId, Turn(n, now)[1].content, Turn(n, now)[2].content)
         /\ sLog' = IF sessionId \in DOMAIN sessions
                      THEN [sLog EXCEPT ![sessions[sessionId]] = @ \o Turn(n, now)]
                      ELSE sLog
         /\ sLast' = [ op |-> "addMessage", sessionId |-> sessionId, session |-> 0,
                       appended |-> sLast.appended + 1, revived |-> sLast.revived ]
  /\ UNCHANGED << sessions, uuids, now, inv, validatorVars, executorVars >>

\* The timer fires: cleanupExpiredSessions()
StoreCleanup ==
  /\ sessions' = cleanupExpiredSessions(Store)
  /\ sLast' = [ op |-> "cleanup", sessionId |-> NoSessionId, session |-> 0,
                appended |-> sLast.appended, revived |-> sLast.revived ]
  /\ UNCHANGED << heap, uuids, now, sLog, inv, validatorVars, executorVars >>

\* Time passes
StoreTick ==
  /\ now < 1 + MaxTicks * CleanupIntervalMinutes
  /\ now' = now + CleanupIntervalMinutes
  /\ UNCHANGED << sessions, heap, uuids, sLog, sLast, inv, validatorVars, executorVars >>

StoreNext == StoreGetSession \/ StoreAddMessage \/ StoreCleanup \/ StoreTick

StoreSpec == StoreInit /\ [][StoreNext]_vars

(***************************************************************************)
(* The rules of the validator as the specification states them.            *)
(***************************************************************************)
\* A parameter is supplied when it is given a non-empty value
Supplied(x) == x # Undefined /\ x # Str("")

IsKind(apiCall, kind) ==
  apiCall.t = "object" /\ apiCall.endpoint = Str(kind) /\ apiCall.params.t = "object"

UnknownEndpoint(apiCall) ==
  /\ apiCall.t = "object"
  /\ apiCall.endpoint \notin { Str("search.php"), Str("filter.php"), Str("lookup.php") }

FilterBothOrNeither(apiCall) ==
  /\ IsKind(apiCall, "filter.php")
  /\ Supplied(apiCall.params.i) <=> Supplied(apiCall.params.c)

OverLength(x, max) == x.t = "string" /\ Len(x.v) > max

OverLengthValue(apiCall) ==
  \/ IsKind(apiCall, "search.php") /\ OverLength(apiCall.params.s, 100)
  \/ /\ IsKind(apiCall, "filter.php")
     /\ \/ Supplied(apiCall.params.i) /\ OverLength(apiCall.params.i, 50)
        \/ Supplied(apiCall.params.c) /\ OverLength(apiCall.params.c, 30)

NonNumericLookupId(apiCall) ==
  /\ IsKind(apiCall, "lookup.php")
  /\ apiCall.params.i.t = "string"
  /\ apiCall.params.i.v # ""
  /\ ~IsNumericString(apiCall.params.i.v)

ViolatesARule(batch) ==
  \/ Len(batch) = 0
  \/ Len(batch) > 5
  \/ \E k \in 1..Len(batch) :
       \/ UnknownEndpoint(batch[k])
       \/ FilterBothOrNeither(batch[k])
       \/ OverLengthValue(batch[k])
       \/ NonNumericLookupId(batch[k])

InVocabulary(x, vocabulary) ==
  /\ x.t = "string"
  /\ \E k \in 1..Len(vocabulary) : toLowerCase(vocabulary[k]) = toLowerCase(x.v)

ObeysTheRules(apiCall) ==
  \/ /\ IsKind(apiCall, "search.php")
     /\ apiCall.params.s.t = "string"
     /\ Len(apiCall.params.s.v) \in 1..100
  \/ /\ IsKind(apiCall, "filter.php")
     /\ \/ /\ Supplied(apiCall.params.i) /\ ~Supplied(apiCall.params.c)
           /\ InVocabulary(apiCall.params.i, COMMON_INGREDIENTS)
           /\ Len(apiCall.params.i.v) <= 50
        \/ /\ Supplied(apiCall.params.c) /\ ~Supplied(apiCall.params.i)
           /\ InVocabulary(apiCall.params.c, MEALDB_CATEGORIES)
           /\ Len(apiCall.params.c.v) <= 30
  \/ /\ IsKind(apiCall, "lookup.php")
     /\ apiCall.params.i.t = "string"
     /\ IsNumericString(apiCall.params.i.v)

AllObeyTheRules(batch) ==
  /\ Len(batch) \in 1..5
  /\ \A k \in 1..Len(batch) : ObeysTheRules(batch[k])

ReasonCodes ==
  { "INVALID_API_CALL", "INVALID_ENDPOINT", "ENDPOINT_NOT_ALLOWED", "INVALID_PARAMS",
    "MISSING_SEARCH_PARAM", "MISSING_FILTER_PARAM", "TOO_MANY_FILTER_PARAMS",
    "MISSING_LOOKUP_PARAM", "INVALID_MEAL_ID", "UNKNOWN_PARAMETER", "MISSING_REQUIRED_PARAM",
    "INVALID_PARAM_TYPE", "PARAM_TOO_LONG", "INVALID_ENUM_VALUE", "NO_API_CALLS",
    "TOO_MANY_API_CALLS", "VALIDATION_ERROR" }

\* C4: validateApiCalls rejects, with a ValidationError carrying a reason
\* code, every batch that violates one of the rules (unknown endpoint, filter
\* with both or neither of i/c, over-length value, non-numeric lookup id,
\* batch of size 0 or above the maximum of 5), and accepts every batch whose
\* operations all obey the rules, leaving the batch as it was.
C4_ValidatorRejectsAndAccepts ==
  vPc = "done" =>
    /\ ViolatesARule(vInput) =>
         /\ ~vResult.ok
         /\ vResult.name = "ValidationError"
         /\ vResult.code \in ReasonCodes
    /\ AllObeyTheRules(vInput) => vResult.ok /\ vBatch = vInput

C4_Witness ==
  /\ vPc = "done"
  /\ Len(vInput) = MAX_API_CALLS + 1
  /\ \A k \in 1..Len(vInput) : ObeysTheRules(vInput[k])
  /\ ~vResult.ok
  /\ vResult.code = "TOO_MANY_API_CALLS"

\* C5: a filter operation whose supplied attribute value (ingredient i or
\* category c) is not, case-insensitively, in that attribute's vocabulary is
\* rejected.
C5_FilterValueInVocabulary ==
  vPc = "done" =>
    \A k \in 1..Len(vInput) :
      LET apiCall == vInput[k] IN
      ( /\ IsKind(apiCall, "filter.php")
        /\ \/ Supplied(apiCall.params.i) /\ ~InVocabulary(apiCall.params.i, COMMON_INGREDIENTS)
           \/ Supplied(apiCall.params.c) /\ ~InVocabulary(apiCall.params.c, MEALDB_CATEGORIES) )
      => ~vResult.ok

(***************************************************************************)
(* processRequest, one step per stretch between two awaits.                *)
(***************************************************************************)
\* A faulty variant of Caught whose outcome carries no error flag
Caught_NoFlag(p, i, error) ==
  \E errorResponse \in { createErrorResponse(error) } :
     /\ heap' = addMessage(Store, heap[i.session].id, Str(i.userMessage), Str(errorResponse))
     /\ inv' = [inv EXCEPT ![p] =
          [ i EXCEPT !.pc = "returned", !.gen = NoUpstream, !.terminal = "ERROR", !.caught = error,
              !.outcome = [ message |-> Str(errorResponse), sessionId |-> heap[i.session].id,
                            apiCallsMade |-> 0 ] ] ]
     /\ UNCHANGED << sessions, uuids, now >>

\* The catch block of processRequest
Caught(p, i, error) ==
  \E errorResponse \in { createErrorResponse(error) } :
     /\ heap' = addMessage(Store, heap[i.session].id, Str(i.userMessage), Str(errorResponse))
     /\ inv' = [inv EXCEPT ![p] =
          [ i EXCEPT !.pc = "returned", !.gen = NoUpstream, !.terminal = "ERROR", !.caught = error,
              !.outcome = [ message |-> Str(errorResponse), sessionId |-> heap[i.session].id,
                            apiCallsMade |-> 0, error |-> TRUE, errorMessage |-> error.message ] ] ]
     /\ UNCHANGED << sessions, uuids, now >>

\* Lines 189-201: merge the data, keep it in the session, ask for the synthesis
StartSynthesis(p, i) ==
  \E allMealData \in { i.successfulData \o i.detailData } :
     /\ heap' = [heap EXCEPT ![i.session].lastMealData = Arr(allMealData)]
     /\ \E upstream \in GenUpstreams(SynthesisTexts) :
          inv' = [inv EXCEPT ![p] =
            [ i EXCEPT !.pc = "synthesis", !.allMealData = allMealData, !.gen = upstream,
                       !.genCalls = Append(@, "synthesis") ] ]
     /\ UNCHANGED << sessions, uuids, now >>

\* A faulty variant of InnerCatch that lets the failure reach the outer catch
InnerCatch_Rethrow(p, i, error) == Caught(p, i, error)

\* Lines 182-184: a failure inside phase 2 is logged and the pipeline goes on
InnerCatch(p, i, error) == StartSynthesis(p, i)

\* Lines 117-130: get the session, ask for the interpretation, for an
\* invocation whose record is i
processRequest(p, i, userMessage, sessionId) ==
  /\ inv[p].pc = "idle"
  /\ \E upstream \in GenUpstreams(IntentTexts) :
       LET got == getSession(Store, sessionId)
       IN /\ sessions' = got.sessions
          /\ heap' = got.heap
          /\ uuids' = got.uuids
          /\ inv' = [inv EXCEPT ![p] =
               [ i EXCEPT !.pc = "intent", !.userMessage = userMessage, !.sessionId = sessionId,
                          !.session = got.session, !.gen = upstream,
                          !.genCalls = Append(@, "intent"),
                          !.startedBeside = { q \in Procs : inv[q].pc \notin {"idle", "returned"} } ] ]
  /\ UNCHANGED << now, aloneVars >>

\* An invocation of processRequest by any caller
ProcessRequest(p) ==
  \E userMessage \in UserMessages, sessionId \in SessionIdChoices :
     processRequest(p, inv[p], userMessage, sessionId)

\* Lines 127-156: the interpretation has settled
IntentSettled(p) ==
  /\ inv[p].pc = "intent"
  /\ invokeModelSettles(inv[p].gen)
  /\ \E i \in { [inv[p] EXCEPT !.replies = Append(@, invokeModel(inv[p].gen))] },
        aiResponse \in { analyzePipeline(inv[p].gen) } :
        \/ /\ ~aiResponse.ok
           /\ Caught(p, i, aiResponse.error)
        \/ /\ aiResponse.ok
           /\ Truthy(aiResponse.value.direct_response)
           /\ \E response \in { aiResponse.value.direct_response } :
                 /\ heap' = addMessage(Store, heap[i.session].id, Str(i.userMessage), response)
                 /\ inv' = [inv EXCEPT ![p] =
                      [ i EXCEPT !.pc = "returned", !.gen = NoUpstream, !.terminal = "DIRECT_RESPONSE",
                          !.outcome = [ message |-> response, sessionId |-> heap[i.session].id,
                                        apiCallsMade |-> 0,
                                        phasesExecuted |-> << "direct_response" >> ] ] ]
           /\ UNCHANGED << sessions, uuids, now >>
        \/ /\ aiResponse.ok
           /\ ~Truthy(aiResponse.value.direct_response)
           /\ aiResponse.value.api_calls.t # "array"
           /\ Caught(p, i, Error("AI service returned invalid response format"))
        \/ /\ aiResponse.ok
           /\ ~Truthy(aiResponse.value.direct_response)
           /\ aiResponse.value.api_calls.t = "array"
           /\ ~ValidateBeforeExecute(aiResponse.value.api_calls.v).ok
           /\ Caught(p, [i EXCEPT !.intentBatch = aiResponse.value.api_calls],
                     ValidateBeforeExecute(aiResponse.value.api_calls.v))
        \/ /\ aiResponse.ok
           /\ ~Truthy(aiResponse.value.direct_response)
           /\ aiResponse.value.api_calls.t = "array"
           /\ ValidateBeforeExecute(aiResponse.value.api_calls.v).ok
           /\ \E apiCalls \in { aiResponse.value.api_calls.v } :
                 \E upstream \in [1..Len(apiCalls) -> UNION {UpstreamBehaviours(apiCalls[k]) : k \in 1..Len(apiCalls)}] :
                   /\ \A k \in 1..Len(apiCalls) : upstream[k] \in UpstreamBehaviours(apiCalls[k])
                   /\ inv' = [inv EXCEPT ![p] =
                        [ i EXCEPT !.pc = "retrieval", !.gen = NoUpstream, !.apiCalls = apiCalls,
                                   !.intentBatch = Arr(apiCalls),
                                   !.batch = StartBatch(apiCalls, upstream) ] ]
           /\ UNCHANGED storeVars
  /\ UNCHANGED aloneVars

\* One call of the batch in flight settles; the calls of a batch settle in
\* any order
CallSettled(p) ==
  /\ inv[p].pc \in {"retrieval", "refinement"}
  /\ \E k \in 1..Len(inv[p].batch.promises) :
       /\ inv[p].batch.promises[k] = Pending
       /\ inv' = [inv EXCEPT ![p].batch = SettlePromise(@, k)]
  /\ UNCHANGED << storeVars, aloneVars >>

\* A faulty variant of RetrievalDone that does not wait for the batch: it
\* goes on with the results that are there
RetrievalDone_NoAwait(p) ==
  /\ inv[p].pc = "retrieval"
  /\ \E n \in 0..Len(inv[p].batch.promises) :
     /\ \A k \in 1..n : inv[p].batch.promises[k] # Pending
     /\ n < Len(inv[p].batch.promises) => inv[p].batch.promises[n + 1] = Pending
     /\ \E initialData \in { processBatchResults(SubSeq(inv[p].batch.promises, 1, n), inv[p].batch.apiCalls) } :
        \E successfulData \in { WithoutErrors(initialData) } :
        \E i \in { [ inv[p] EXCEPT !.initialData = initialData, !.successfulData = successfulData,
                                 !.totalApiCalls = Len(inv[p].apiCalls), !.batch = NoBatch,
                                 !.executed = Append(@, [ apiCalls |-> inv[p].batch.apiCalls,
                                                          upstream |-> inv[p].batch.upstream,
                                                          results |-> initialData ]) ] } :
           \/ /\ hasFilterResults(successfulData) /\ Len(successfulData) > 0
              /\ \E upstream \in GenUpstreams(SelectionTexts) :
                   inv' = [inv EXCEPT ![p] =
                     [ i EXCEPT !.pc = "selection", !.gen = upstream,
                                !.genCalls = Append(@, "selection") ] ]
              /\ UNCHANGED storeVars
           \/ /\ ~(hasFilterResults(successfulData) /\ Len(successfulData) > 0)
              /\ StartSynthesis(p, i)
  /\ UNCHANGED aloneVars

\* Lines 155-187: the retrieval batch is back
RetrievalDone(p) ==
  /\ inv[p].pc = "retrieval"
  /\ AllSettled(inv[p].batch)
  /\ \E initialData \in { BatchResults(inv[p].batch) } :
     \E successfulData \in { WithoutErrors(initialData) } :
     \E i \in { [ inv[p] EXCEPT !.initialData = initialData, !.successfulData = successfulData,
                              !.totalApiCalls = Len(inv[p].apiCalls), !.batch = NoBatch,
                              !.executed = Append(@, [ apiCalls |-> inv[p].batch.apiCalls,
                                                       upstream |-> inv[p].batch.upstream,
                                                       results |-> initialData ]) ] } :
        \/ /\ hasFilterResults(successfulData) /\ Len(successfulData) > 0
           /\ \E upstream \in GenUpstreams(SelectionTexts) :
                inv' = [inv EXCEPT ![p] =
                  [ i EXCEPT !.pc = "selection", !.gen = upstream,
                             !.genCalls = Append(@, "selection") ] ]
           /\ UNCHANGED storeVars
        \/ /\ ~(hasFilterResults(successfulData) /\ Len(successfulData) > 0)
           /\ StartSynthesis(p, i)
  /\ UNCHANGED aloneVars

\* Lines 169-184: the selection has settled
SelectionSettled(p) ==
  /\ inv[p].pc = "selection"
  /\ invokeModelSettles(inv[p].gen)
  /\ \E selectionResponse \in { selectRecipes(inv[p].successfulData, inv[p].gen) } :
     \E apiCalls \in { selectionResponse.api_calls.v } :
     \E i \in { [ inv[p] EXCEPT !.selectionCalls = apiCalls, !.gen = NoUpstream,
                  !.replies = Append(@, [ok |-> invokeModel(inv[p].gen).ok]),
                  !.refinementFailure =
                    IF ~invokeModel(inv[p].gen).ok THEN "generation"
                    ELSE IF invokeModel(inv[p].gen).value.parsed.t # "object"
                            \/ invokeModel(inv[p].gen).value.parsed.api_calls.t # "array"
                           THEN "unusable"
                    ELSE IF Len(apiCalls) > 0 /\ ~ValidateBeforeExecute(apiCalls).ok THEN "validation"
                    ELSE "none" ] } :
        \/ /\ Len(apiCalls) = 0
           /\ StartSynthesis(p, i)
        \/ /\ Len(apiCalls) > 0
           /\ ~ValidateBeforeExecute(apiCalls).ok
           /\ InnerCatch(p, i, ValidateBeforeExecute(apiCalls))
        \/ /\ Len(apiCalls) > 0
           /\ ValidateBeforeExecute(apiCalls).ok
           /\ \E upstream \in [1..Len(apiCalls) -> UNION {UpstreamBehaviours(apiCalls[k]) : k \in 1..Len(apiCalls)}] :
                /\ \A k \in 1..Len(apiCalls) : upstream[k] \in UpstreamBehaviours(apiCalls[k])
                /\ inv' = [inv EXCEPT ![p] =
                     [ i EXCEPT !.pc = "refinement", !.batch = StartBatch(apiCalls, upstream) ] ]
           /\ UNCHANGED storeVars
  /\ UNCHANGED aloneVars

\* A faulty variant of RefinementDone that counts the calls that succeeded
RefinementDone_CountsSucceeded(p) ==
  /\ inv[p].pc = "refinement"
  /\ AllSettled(inv[p].batch)
  /\ \E detailData \in { BatchResults(inv[p].batch) } :
     \E i \in { [ inv[p] EXCEPT !.detailData = detailData,
                              !.totalApiCalls = @ + Len(WithoutErrors(detailData)),
                              !.phase2Executed = TRUE, !.batch = NoBatch,
                              !.executed = Append(@, [ apiCalls |-> inv[p].batch.apiCalls,
                                                       upstream |-> inv[p].batch.upstream,
                                                       results |-> detailData ]) ] } :
        StartSynthesis(p, i)
  /\ UNCHANGED aloneVars

\* Lines 178-201: the refinement batch is back
RefinementDone(p) ==
  /\ inv[p].pc = "refinement"
  /\ AllSettled(inv[p].batch)
  /\ \E detailData \in { BatchResults(inv[p].batch) } :
     \E i \in { [ inv[p] EXCEPT !.detailData = detailData,
                              !.totalApiCalls = @ + Len(inv[p].selectionCalls),
                              !.phase2Executed = TRUE, !.batch = NoBatch,
                              !.executed = Append(@, [ apiCalls |-> inv[p].batch.apiCalls,
                                                       upstream |-> inv[p].batch.upstream,
                                                       results |-> detailData ]) ] } :
        StartSynthesis(p, i)
  /\ UNCHANGED aloneVars

\* A faulty variant of SynthesisSettled that reports the refinement phase as
\* soon as the selection was asked for
SynthesisSettled_PhaseByCall(p) ==
  /\ inv[p].pc = "synthesis"
  /\ invokeModelSettles(inv[p].gen)
  /\ \E i \in { [inv[p] EXCEPT !.replies = Append(@, [ok |-> invokeModel(inv[p].gen).ok])] },
        finalResponse \in { synthesizeResponse(inv[p].allMealData, inv[p].gen) } :
        /\ heap' = addMessage(Store, heap[i.session].id, Str(i.userMessage), Str(finalResponse))
        /\ inv' = [inv EXCEPT ![p] =
             [ i EXCEPT !.pc = "returned", !.gen = NoUpstream, !.terminal = "SYNTHESIS",
                 !.outcome = [ message |-> Str(finalResponse), sessionId |-> heap[i.session].id,
                               apiCallsMade |-> i.totalApiCalls,
                               phasesExecuted |->
                                 IF Len(i.genCalls) = 3
                                   THEN << "intent_analysis", "recipe_selection", "synthesis" >>
                                   ELSE << "intent_analysis", "synthesis" >>,
                               recipeDataFound |-> countRecipes(i.allMealData) ] ] ]
  /\ UNCHANGED << sessions, uuids, now, aloneVars >>

\* Lines 197-217: the synthesis has settled
SynthesisSettled(p) ==
  /\ inv[p].pc = "synthesis"
  /\ invokeModelSettles(inv[p].gen)
  /\ \E i \in { [inv[p] EXCEPT !.replies = Append(@, [ok |-> invokeModel(inv[p].gen).ok])] },
        finalResponse \in { synthesizeResponse(inv[p].allMealData, inv[p].gen) } :
        /\ heap' = addMessage(Store, heap[i.session].id, Str(i.userMessage), Str(finalResponse))
        /\ inv' = [inv EXCEPT ![p] =
             [ i EXCEPT !.pc = "returned", !.gen = NoUpstream, !.terminal = "SYNTHESIS",
                 !.outcome = [ message |-> Str(finalResponse), sessionId |-> heap[i.session].id,
                               apiCallsMade |-> i.totalApiCalls,
                               phasesExecuted |->
                                 IF i.phase2Executed
                                   THEN << "intent_analysis", "recipe_selection", "synthesis" >>
                                   ELSE << "intent_analysis", "synthesis" >>,
                               recipeDataFound |-> countRecipes(i.allMealData) ] ] ]
  /\ UNCHANGED << sessions, uuids, now, aloneVars >>

Init == PipelineInit /\ ValidatorIdle /\ ExecutorIdle

\* The continuations of an invocation
Resume(p) ==
  \/ IntentSettled(p)
  \/ CallSettled(p)
  \/ RetrievalDone(p)
  \/ SelectionSettled(p)
  \/ RefinementDone(p)
  \/ SynthesisSettled(p)

Next == \E p \in SpecProcs : ProcessRequest(p) \/ Resume(p)

Spec == Init /\ [][Next]_vars

\* The event loop runs a continuation once what it awaits has settled
FairSpec == Spec /\ \A p \in SpecProcs : WF_vars(Resume(p))

(***************************************************************************)
(* Two invocations at once.  Every step of an invocation runs to its next  *)
(* await before a step of the other starts; the backend and the data       *)
(* source answer every call, with fewer texts than in Spec.                *)
(***************************************************************************)
\* What the backend answers to the two invocations
ConcGens ==
  { NoUpstream }
  \cup { [kind |-> "body", body |-> [t |-> "json", shape |-> "outputs", text |-> x]] :
           x \in { Text("Hello! I'm ChefSue, your cooking assistant.", NotJson),
                   BatchText(<< FilterI("Chicken") >>),
                   BatchText(<< Lookup("52901") >>) } \cup SynthesisTexts }

\* The answers the two invocations wait for are among these, and the data
\* source answers every call with a body
ConcAnswers ==
  \A p \in Procs :
    /\ inv[p].gen \in ConcGens
    /\ \A k \in 1..Len(inv[p].batch.upstream) : inv[p].batch.upstream[k].kind = "body"

ConcNext ==
  \E p \in Procs :
    \/ ProcessRequest(p) /\ ConcAnswers'
    \/ Resume(p) /\ ConcAnswers'

ConcSpec == Init /\ [][ConcNext]_vars

(***************************************************************************)
(* One invocation beside the timer of timeoutHandler (60 s by default).    *)
(* The timer is taken to fire only once the interpretation and the         *)
(* retrieval are over: each of the two may take up to 30 s.  The backend   *)
(* and the data source answer as in ConcSpec.                              *)
(***************************************************************************)
\* The callback of setTimeout in timeoutHandler: next(error) answers the
\* request with 408; nothing is passed to processRequest
TimeoutFires(p) ==
  /\ inv[p].pc \in {"selection", "refinement", "synthesis"}
  /\ ~inv[p].timedOut
  /\ inv' = [inv EXCEPT ![p].timedOut = TRUE]
  /\ UNCHANGED << storeVars, aloneVars >>

DeadlineNext ==
  \E p \in SpecProcs :
    \/ ProcessRequest(p) /\ ConcAnswers'
    \/ Resume(p) /\ ConcAnswers'
    \/ TimeoutFires(p)

DeadlineSpec == Init /\ [][DeadlineNext]_vars

(***************************************************************************)
(* The chat route in front of the pipeline (server.js 318-360): the        *)
(* message and the session id are validated, then processRequest runs.     *)
(***************************************************************************)
\* A message of more than MAX_MESSAGE_LENGTH characters
LongMessage ==
  Repeat("a dish with a lot of chicken, rice, garlic and basil ", 10)
    \o "<script>alert(1)</script>"

\* The message of a request body: absent, plain, or carrying markup
ChatMessages ==
  { Undefined,
    Str("dishes with chicken"),
    Str("  dishes with chicken "),
    Str("<script>alert(1)</script>"),
    Str("try <SCRIPT src=x>y</Script> now"),
    Str("<script>\nalert(1)\n</script>"),
    Str("<iframe src=x></iframe>"),
    Str("javascript:alert(1)"),
    Str("onions = tasty"),
    Str(LongMessage) }

ChatSessionIds == {NoSessionId, KnownSessionId, "short"}

\* POST /api/chat: a request that fails validation is answered by
\* errorHandler and goes no further; a valid one starts processRequest with
\* the trimmed message
PostChat(p) ==
  /\ inv[p].pc = "idle"
  /\ inv[p].chat = NoChat
  /\ \E message \in ChatMessages, sessionId \in ChatSessionIds :
     \E validatedMessage \in { validateUserMessage(message) } :
     \E validatedSessionId \in { validateSessionId(sessionId) } :
       IF ~validatedMessage.ok
         THEN /\ inv' = [inv EXCEPT ![p].chat =
                           [ body |-> message,
                             status |-> errorHandler(validatedMessage).status,
                             code |-> errorHandler(validatedMessage).code ] ]
              /\ UNCHANGED << storeVars, aloneVars >>
       ELSE IF ~validatedSessionId.ok
         THEN /\ inv' = [inv EXCEPT ![p].chat =
                           [ body |-> message,
                             status |-> errorHandler(validatedSessionId).status,
                             code |-> errorHandler(validatedSessionId).code ] ]
              /\ UNCHANGED << storeVars, aloneVars >>
       ELSE processRequest(p, [inv[p] EXCEPT !.chat = [ body |-> message, status |-> 0, code |-> "none" ]],
                           validatedMessage.value, validatedSessionId.value)

ChatNext ==
  \E p \in SpecProcs :
    \/ PostChat(p)
    \/ Resume(p) /\ ConcAnswers'

ChatSpec == Init /\ [][ChatNext]_vars

(***************************************************************************)
(* One invocation beside the timer of the sweep.  REQUEST_TIMEOUT_MS and   *)
(* SESSION_TIMEOUT_MINUTES are both configurable, so no bound is put on    *)
(* the time an await takes; the backend and the data source answer as in   *)
(* ConcSpec.                                                               *)
(***************************************************************************)
\* Steps of the clock while a request may be in flight
MaxIdleTicks == 3

\* Time passes
SweepTick ==
  /\ now < 1 + MaxIdleTicks * CleanupIntervalMinutes
  /\ now' = now + CleanupIntervalMinutes
  /\ UNCHANGED << sessions, heap, uuids, inv, aloneVars >>

\* The timer fires: cleanupExpiredSessions()
SweepFires ==
  /\ sessions' = cleanupExpiredSessions(Store)
  /\ UNCHANGED << heap, uuids, now, inv, aloneVars >>

\* A step of the invocation
SweepResume(p) == Resume(p) /\ ConcAnswers'

SweepNext ==
  \/ \E p \in SpecProcs : ProcessRequest(p) /\ ConcAnswers'
  \/ \E p \in SpecProcs : SweepResume(p)
  \/ SweepTick
  \/ SweepFires

\* The event loop runs the continuation of every await that settled
SweepSpec == Init /\ [][SweepNext]_vars /\ \A p \in SpecProcs : WF_vars(SweepResume(p))
(***************************************************************************)
(* Properties of the orchestrator.                                         *)
(***************************************************************************)
Returned(p) == inv[p].pc = "returned"

\* Every batch an invocation has handed to executeBatch: the ones that are
\* back and the one in flight
HandedToExecuteBatch(p) ==
  { inv[p].executed[k].apiCalls : k \in 1..Len(inv[p].executed) }
    \cup (IF inv[p].pc \in {"retrieval", "refinement"} THEN { inv[p].batch.apiCalls } ELSE {})

\* The failures upstream among the calls an invocation has dispatched
UpstreamFails(upstream) == upstream.kind \in {"error", "never"}

\* C1: processRequest never raises: whatever the generation client and the
\* data source do, an invocation that ends returns an outcome with a text
\* message and a session identifier, and an error that reaches the top-level
\* catch ends in an outcome flagged error = TRUE, never in an exception.
C1_NeverRaises ==
  \A p \in SpecProcs :
    /\ inv[p].pc \in {"idle", "intent", "retrieval", "selection", "refinement", "synthesis", "returned"}
    /\ Returned(p) =>
         /\ inv[p].outcome # NoOutcome
         /\ inv[p].outcome.message.t = "string"
         /\ Len(inv[p].outcome.sessionId) > 0
         /\ inv[p].outcome.sessionId \in DOMAIN sessions
    /\ inv[p].caught # NoErrorCaught =>
         /\ Returned(p)
         /\ "error" \in DOMAIN inv[p].outcome
         /\ inv[p].outcome.error = TRUE

C1_Witness ==
  \E p \in SpecProcs :
    /\ Returned(p)
    /\ inv[p].caught.name = "ValidationError"
    /\ inv[p].outcome.error = TRUE
    /\ inv[p].sessionId = NoSessionId

\* C2: every invocation that has started eventually reaches one of the
\* terminal states DIRECT_RESPONSE, SYNTHESIS or ERROR: no generation call and
\* no data-source call blocks it forever.
C2_EventuallyTerminal ==
  \A p \in SpecProcs :
    (inv[p].pc # "idle") ~>
      (Returned(p) /\ inv[p].terminal \in {"DIRECT_RESPONSE", "SYNTHESIS", "ERROR"})

\* An invocation that ended although a generation call and a data-source
\* call never answered
C2_Witness ==
  \E p \in SpecProcs :
    /\ Returned(p)
    /\ inv[p].terminal = "SYNTHESIS"
    /\ inv[p].refinementFailure = "generation"
    /\ Len(inv[p].executed) = 2
    /\ \E k \in 1..Len(inv[p].executed[2].upstream) : inv[p].executed[2].upstream[k].kind = "never"

\* C3: every operation handed to executeBatch, in RETRIEVAL and in
\* REFINEMENT, from the generation client or from the fallback selection,
\* belongs to a batch that validateApiCalls accepted.
C3_OnlyValidatedBatchesExecuted ==
  \A p \in SpecProcs :
    \A apiCalls \in HandedToExecuteBatch(p) :
      /\ validateApiCalls(apiCalls).ok
      /\ \A k \in 1..Len(apiCalls) : validateApiCall(apiCalls[k]).ok

\* A fallback batch and a generated batch, both dispatched
C3_Witness ==
  \E p \in SpecProcs :
    /\ inv[p].pc = "refinement"
    /\ inv[p].refinementFailure = "generation"
    /\ Len(inv[p].executed) = 1
    /\ Len(inv[p].batch.apiCalls) = 3

\* C6: when the batch of the interpretation step fails validation, the
\* invocation ends in ERROR through the top-level catch: no data-source call
\* is made, neither REFINEMENT nor SYNTHESIS is entered, and the outcome is
\* flagged error = TRUE with apiCallsMade = 0.
C6_RejectedIntentBatchEndsInError ==
  \A p \in SpecProcs :
    ( /\ inv[p].intentBatch.t = "array"
      /\ ~validateApiCalls(inv[p].intentBatch.v).ok )
    => /\ Returned(p)
       /\ inv[p].terminal = "ERROR"
       /\ inv[p].caught.name = "ValidationError"
       /\ HandedToExecuteBatch(p) = {}
       /\ inv[p].genCalls = << "intent" >>
       /\ "error" \in DOMAIN inv[p].outcome
       /\ inv[p].outcome.error = TRUE
       /\ inv[p].outcome.apiCallsMade = 0

\* A batch with a valid first call and an invalid second one, rejected
C6_Witness ==
  \E p \in SpecProcs :
    /\ Returned(p)
    /\ inv[p].intentBatch = Arr(<< FilterI("Chicken"), Lookup("52x") >>)
    /\ inv[p].terminal = "ERROR"
    /\ inv[p].caught.code = "INVALID_MEAL_ID"

\* A result is filter-style when it has records and they lack the detail-only
\* field
FilterStyle(result) ==
  /\ ~HasError(result)
  /\ result.meals.t = "array"
  /\ Len(result.meals.v) > 0
  /\ \A m \in 1..Len(result.meals.v) : result.meals.v[m].strInstructions = ""

PastRetrieval(p) == Len(inv[p].executed) >= 1

\* C8: REFINEMENT is entered if and only if at least one successful
\* retrieval result is non-empty and filter-style; when every successful
\* result is lookup-style or empty, or none succeeded, the pipeline goes
\* straight from RETRIEVAL to SYNTHESIS.
C8_RefinementIffFilterResults ==
  \A p \in SpecProcs :
    PastRetrieval(p) =>
      LET results == inv[p].executed[1].results
          someFilterStyle == \E k \in 1..Len(results) : FilterStyle(results[k])
      IN /\ someFilterStyle =>
              /\ Len(inv[p].genCalls) >= 2
              /\ inv[p].genCalls[2] = "selection"
         /\ ~someFilterStyle =>
              /\ inv[p].genCalls = << "intent", "synthesis" >>
              /\ Len(inv[p].executed) = 1
              /\ ~inv[p].phase2Executed
              /\ inv[p].pc \in {"synthesis", "returned"}

\* Retrieval brought only lookup-style and empty results, and the invocation
\* ended without REFINEMENT
C8_Witness ==
  \E p \in SpecProcs :
    /\ Returned(p)
    /\ inv[p].apiCalls = << Search("korean") >>
    /\ Len(inv[p].successfulData) = 1
    /\ hasResults(inv[p].successfulData[1])
    /\ inv[p].genCalls = << "intent", "synthesis" >>

\* C9: no failure inside REFINEMENT surfaces as an error: when the
\* refinement generation call fails or times out, returns unusable output,
\* or yields a batch that fails validation, the invocation still ends in
\* SYNTHESIS with the retrieval results, and its outcome is not flagged error.
C9_RefinementFailureRecovered ==
  \A p \in SpecProcs :
    inv[p].refinementFailure # "none" =>
      /\ inv[p].pc \in {"refinement", "synthesis", "returned"}
      /\ inv[p].caught = NoErrorCaught
      /\ inv[p].pc \in {"synthesis", "returned"} =>
           /\ inv[p].genCalls[Len(inv[p].genCalls)] = "synthesis"
           /\ SubSeq(inv[p].allMealData, 1, Len(inv[p].successfulData)) = inv[p].successfulData
      /\ Returned(p) =>
           /\ inv[p].terminal = "SYNTHESIS"
           /\ "error" \notin DOMAIN inv[p].outcome

\* The selected batch failed validation and the invocation ended in SYNTHESIS
C9_Witness ==
  \E p \in SpecProcs :
    /\ Returned(p)
    /\ inv[p].refinementFailure = "validation"
    /\ inv[p].terminal = "SYNTHESIS"
    /\ Len(inv[p].successfulData) > 0

RECURSIVE AllRecords(_, _)
\* The records of the results, in their original order
AllRecords(results, k) ==
  IF k > Len(results) THEN << >>
  ELSE (IF NonEmptyMeals(results[k]) THEN results[k].meals.v ELSE << >>)
         \o AllRecords(results, k + 1)

\* C10: when the refinement generation call fails (or its output is
\* unusable), the fallback selection is the function of the retrieval
\* results that yields one lookup operation for each of the first 3 records
\* in original order, fewer only when fewer than 3 records exist.
C10_FallbackSelectsFirstThree ==
  \A p \in SpecProcs :
    inv[p].refinementFailure \in {"generation", "unusable"} =>
      LET records == AllRecords(inv[p].successfulData, 1)
          n == IF Len(records) < 3 THEN Len(records) ELSE 3
      IN /\ Len(inv[p].selectionCalls) = n
         /\ \A k \in 1..n :
              /\ inv[p].selectionCalls[k].endpoint = Str("lookup.php")
              /\ inv[p].selectionCalls[k].params.i = Str(records[k].idMeal)

\* Two results with 2 and 5 records: the fallback takes the 2 and the first
\* of the 5
C10_Witness ==
  \E p \in SpecProcs :
    /\ inv[p].refinementFailure = "generation"
    /\ Len(inv[p].successfulData) = 2
    /\ Len(AllRecords(inv[p].successfulData, 1)) = 7
    /\ inv[p].selectionCalls = << Lookup("52906"), Lookup("52907"), Lookup("52901") >>

\* Fewer than 3 records exist: the fallback takes them all
C10_WitnessFewer ==
  \E p \in SpecProcs :
    /\ inv[p].refinementFailure = "generation"
    /\ Len(AllRecords(inv[p].successfulData, 1)) = 2
    /\ Len(inv[p].selectionCalls) = 2

(***************************************************************************)
(* Properties of the batch executor.                                       *)
(***************************************************************************)
\* C7: executeBatch on N operations of which exactly k fail upstream returns
\* N entries in input order: at each failed position a failure marker with
\* the endpoint and params of the operation at that position, at each other
\* position that operation's result; a failing operation neither prevents
\* nor alters the results of the others.
C7_OneResultPerCallInOrder ==
  bPc = "returned" /\ Len(bCalls) > 0 =>
    /\ Len(bResults) = Len(bCalls)
    /\ Cardinality({ k \in 1..Len(bResults) : HasError(bResults[k]) })
         = Cardinality({ k \in 1..Len(bCalls) : UpstreamFails(bBatch.upstream[k]) })
    /\ \A k \in 1..Len(bCalls) :
         IF UpstreamFails(bBatch.upstream[k])
           THEN /\ HasError(bResults[k])
                /\ bResults[k].endpoint = bCalls[k].endpoint
                /\ bResults[k].params = bCalls[k].params
           ELSE /\ ~HasError(bResults[k])
                /\ bResults[k] = processResponse(bBatch.upstream[k].data, bCalls[k].endpoint)

\* Three calls of which the second alone failed
C7_Witness ==
  /\ bPc = "returned"
  /\ Len(bCalls) = 3
  /\ ~HasError(bResults[1])
  /\ HasError(bResults[2])
  /\ bResults[2].endpoint = Str("lookup.php")
  /\ ~HasError(bResults[3])
  /\ hasResults(bResults[3])
(***************************************************************************)
(* Properties of the fallback policy and of the terminal transitions.      *)
(***************************************************************************)
\* The generation call number k of the invocation failed or timed out
GenerationFailed(p, k) == k <= Len(inv[p].replies) /\ ~inv[p].replies[k].ok

\* The synthesis call of the invocation has settled, and it failed
SynthesisFailed(p) ==
  /\ Len(inv[p].genCalls) > 0
  /\ inv[p].genCalls[Len(inv[p].genCalls)] = "synthesis"
  /\ GenerationFailed(p, Len(inv[p].genCalls))

FirstThree(records) == SubSeq(records, 1, IF Len(records) < 3 THEN Len(records) ELSE 3)

\* C11: when the synthesis generation call fails, the invocation still ends
\* in SYNTHESIS with a non-error outcome whose text is the fallback: the
\* no-results message when the merged result set is empty, otherwise the
\* templated summary of at most 3 of the retrieved records in original order.
\* "Empty" is read both ways: a merged set without results takes the
\* no-results message, one with records takes the summary, and one with
\* results but no record may take either.
C11_SynthesisFallbackText ==
  \A p \in SpecProcs :
    SynthesisFailed(p) =>
      LET records == AllRecords(inv[p].allMealData, 1)
          text == inv[p].outcome.message
      IN /\ Returned(p)
         /\ inv[p].terminal = "SYNTHESIS"
         /\ "error" \notin DOMAIN inv[p].outcome
         /\ Len(inv[p].allMealData) = 0 => text = Str(NoRecipesMessage)
         /\ Len(records) > 0 => text = Str(buildFallbackResponseText(FirstThree(records)))
         /\ (Len(inv[p].allMealData) > 0 /\ Len(records) = 0) =>
              text \in { Str(NoRecipesMessage), Str(buildFallbackResponseText(<< >>)) }

\* The synthesis call failed over results that hold no record
C11_Witness ==
  \E p \in SpecProcs :
    /\ SynthesisFailed(p)
    /\ Len(inv[p].allMealData) > 0
    /\ Len(AllRecords(inv[p].allMealData, 1)) = 0
    /\ inv[p].outcome.message = Str(NoDetailsMessage)

\* C12: a failed or timed-out generation call is recovered by the fallback
\* policy in whichever phase it occurs (interpretation, refinement,
\* synthesis): it never drives the invocation into ERROR and its error is
\* never passed to the caller.
C12_GenerationFailureRecovered ==
  \A p \in SpecProcs :
    (\E k \in 1..Len(inv[p].replies) : GenerationFailed(p, k)) =>
      /\ inv[p].caught = NoErrorCaught
      /\ Returned(p) =>
           /\ inv[p].terminal # "ERROR"
           /\ "errorMessage" \notin DOMAIN inv[p].outcome

\* The interpretation call timed out and the invocation ended in ERROR
C12_Witness ==
  \E p \in SpecProcs :
    /\ Returned(p)
    /\ inv[p].genCalls = << "intent" >>
    /\ GenerationFailed(p, 1)
    /\ inv[p].terminal = "ERROR"
    /\ inv[p].outcome.errorMessage = "Failed to analyze user intent: Request timeout"

\* A generated text that is not a structured batch: not JSON (the empty text
\* included), or JSON of any shape without an api_calls array
NotStructuredBatch(text) ==
  \/ text.parsed.t = "invalid"
  \/ text.parsed.t # "object"
  \/ text.parsed.api_calls.t # "array"

\* C13: every text of the interpretation call that is not a structured batch
\* (invalid JSON, JSON without an api_calls array, text empty after trimming)
\* is treated as a direct answer: the invocation ends in DIRECT_RESPONSE,
\* never in a hard failure.
C13_UnstructuredTextIsDirectAnswer ==
  \A p \in SpecProcs :
    ( /\ Len(inv[p].replies) >= 1
      /\ inv[p].replies[1].ok
      /\ NotStructuredBatch(inv[p].replies[1].value) )
    => /\ Returned(p)
       /\ inv[p].terminal = "DIRECT_RESPONSE"
       /\ inv[p].caught = NoErrorCaught

\* A text of blanks ended in ERROR
C13_Witness ==
  \E p \in SpecProcs :
    /\ Returned(p)
    /\ inv[p].replies = << [ok |-> TRUE, value |-> Text("", NotJson)] >>
    /\ inv[p].terminal = "ERROR"
    /\ inv[p].caught.message = "AI service returned invalid response format"

\* The last n elements of seq (all of it when it has fewer)
Newest(seq, n) == SubSeq(seq, (IF Len(seq) > n THEN Len(seq) - n ELSE 0) + 1, Len(seq))

\* C14: every terminal transition (DIRECT_RESPONSE, SYNTHESIS, ERROR)
\* appends exactly one pair to the history of the invocation's session, the
\* user message followed by an assistant message that equals the message of
\* the returned outcome, provided the session is still in the store; no
\* other session's history changes.
C14_TerminalAppendsOnePair ==
  [][ \A p \in SpecProcs :
        (inv[p].pc # "returned" /\ inv'[p].pc = "returned") =>
          LET id == heap[inv[p].session].id
          IN id \in DOMAIN sessions =>
               LET ref == sessions[id]
                   pair == << Message("user", Str(inv[p].userMessage), now),
                              Message("assistant", inv'[p].outcome.message, now) >>
               IN /\ sessions' = sessions
                  /\ heap'[ref].history = Newest(heap[ref].history \o pair, 2 * maxConversationLength)
                  /\ \A r \in DOMAIN heap : r # ref => heap'[r].history = heap[r].history
    ]_vars

\* An invocation on the known session ended in ERROR and its pair follows the
\* earlier turn
C14_Witness ==
  \E p \in SpecProcs :
    /\ Returned(p)
    /\ inv[p].terminal = "ERROR"
    /\ inv[p].sessionId = KnownSessionId
    /\ Len(heap[inv[p].session].history) = 4
    /\ heap[inv[p].session].history[3].content = Str(inv[p].userMessage)
    /\ heap[inv[p].session].history[4].content = inv[p].outcome.message

\* C15: the outcome returned at every terminal state (DIRECT_RESPONSE,
\* SYNTHESIS, ERROR) records the list of phases that ran, the number of
\* data-source calls made and the count of result records.
C15_OutcomeRecordsPhasesCallsRecords ==
  \A p \in SpecProcs :
    Returned(p) =>
      {"phasesExecuted", "apiCallsMade", "recipeDataFound"} \subseteq DOMAIN inv[p].outcome

\* An ERROR outcome without the list of phases and the count of records
C15_Witness ==
  \E p \in SpecProcs :
    /\ Returned(p)
    /\ inv[p].terminal = "ERROR"
    /\ DOMAIN inv[p].outcome = {"message", "sessionId", "apiCallsMade", "error", "errorMessage"}

(***************************************************************************)
(* Claims about the session store, checked on StoreSpec.                   *)
(***************************************************************************)
\* The messages of a history, as a set
Messages(history) == { history[i] : i \in 1..Len(history) }

\* From old to new, messages left only from the oldest end: the k oldest are
\* gone, the others open the new history in their order, and what follows
\* them was not in the old one
RemovedFromOldestEnd(old, new) ==
  \E k \in 0..Len(old) :
    /\ Len(new) >= Len(old) - k
    /\ \A i \in 1..(Len(old) - k) : new[i] = old[k + i]
    /\ \A j \in (Len(old) - k + 1)..Len(new) : new[j] \notin Messages(old)
    /\ \A i \in 1..k : old[i] \notin Messages(new)

\* C16: the history of every session holds at most 2 x maxTurns messages;
\* messages are only ever removed from its oldest end, and the messages that
\* remain keep their relative order.
C16_HistoryBoundedOldestRemoved ==
  /\ [](\A ref \in DOMAIN heap : Len(heap[ref].history) <= 2 * maxConversationLength)
  /\ [][ \A ref \in DOMAIN heap : RemovedFromOldestEnd(heap[ref].history, heap'[ref].history) ]_vars

\* A full history took one more turn: the oldest turn is gone and the
\* window is full
C16_Witness ==
  /\ sLast.op = "addMessage"
  /\ \E ref \in DOMAIN heap :
       /\ Len(sLog[ref]) > 2 * maxConversationLength
       /\ Len(heap[ref].history) = 2 * maxConversationLength
       /\ sLog[ref][1] \notin Messages(heap[ref].history)

\* C17: once more than maxTurns turns were appended to a session, its
\* history is exactly the most recent maxTurns turns, in order, each turn the
\* user message then the assistant message.
C17_HistoryIsNewestTurns ==
  \A ref \in DOMAIN heap :
    Len(sLog[ref]) > 2 * maxConversationLength =>
      /\ heap[ref].history = Newest(sLog[ref], 2 * maxConversationLength)
      /\ Len(heap[ref].history) = 2 * maxConversationLength
      /\ \A i \in 1..Len(heap[ref].history) :
           heap[ref].history[i].role = (IF i % 2 = 1 THEN "user" ELSE "assistant")
      /\ \A t \in 1..maxConversationLength :
           heap[ref].history[2 * t - 1].timestamp = heap[ref].history[2 * t].timestamp

\* Eleven turns on one session
C17_Witness ==
  /\ sLast.op = "addMessage"
  /\ \E ref \in DOMAIN heap :
       /\ Len(sLog[ref]) = 2 * (maxConversationLength + 1)
       /\ heap[ref].history[1] = sLog[ref][3]

\* C18: with the default configuration (MAX_CONVERSATION_LENGTH unset, 10)
\* a history never holds more than 10 messages: a history within 10 messages
\* is within 10 messages after every step.
C18_HistoryWithinTenMessages ==
  [][ \A ref \in DOMAIN heap :
        Len(heap[ref].history) <= maxConversationLength =>
          Len(heap'[ref].history) <= maxConversationLength ]_vars

\* Six turns kept in one history
C18_Witness ==
  /\ sLast.op = "addMessage"
  /\ \E ref \in DOMAIN heap :
       /\ Len(heap[ref].history) = maxConversationLength + 2
       /\ heap[ref].history = sLog[ref]

\* The step is a call of getSession
GetSessionStep == sLast'.op = "getSession" /\ now' = now

\* getSession returned the session the store held under id, its history
\* intact, and made no session
ReturnedExisting(id, ref) ==
  /\ ref = sessions[id]
  /\ sessions' = sessions
  /\ Len(heap') = Len(heap)
  /\ \A r \in DOMAIN heap : heap'[r].history = heap[r].history

\* getSession made one session, empty, stored under the identifier newId,
\* and returned it; the other sessions stay
CreatedUnder(newId, ref) ==
  /\ ref = Len(heap) + 1
  /\ Len(heap') = Len(heap) + 1
  /\ heap'[ref].id = newId
  /\ heap'[ref].history = << >>
  /\ DOMAIN sessions' = DOMAIN sessions \cup {newId}
  /\ sessions'[newId] = ref
  /\ \A k \in DOMAIN sessions \ {newId} : sessions'[k] = sessions[k]
  /\ \A r \in DOMAIN heap : heap'[r].history = heap[r].history

\* The identifier of the session made in this step came from the generator
\* and is none the store or a caller holds
FreshlyGenerated(ref) ==
  /\ uuids' = uuids + 1
  /\ heap'[ref].id = UuidText(uuids + 1)
  /\ heap'[ref].id \notin DOMAIN sessions \cup StoreIds \cup {NoSessionId}

\* C19 as stated: getSession returns the existing session, its history
\* intact, when the id is present in the store; in every other case (no id,
\* or an id not in the store) it creates a new session whose identifier is
\* freshly generated.
C19_KnownOrFreshlyGenerated ==
  [][ GetSessionStep =>
        LET id == sLast'.sessionId
            ref == sLast'.session
        IN IF id # NoSessionId /\ id \in DOMAIN sessions
           THEN ReturnedExisting(id, ref)
           ELSE CreatedUnder(heap'[ref].id, ref) /\ FreshlyGenerated(ref)
    ]_vars

\* C19, amended: getSession returns the existing session, its history
\* intact, when the id is present in the store; with no id it creates a new
\* session whose identifier is freshly generated; with an id not in the store
\* it creates a new session under that id, and generates none.
C19_KnownOrGivenIdOrGenerated ==
  [][ GetSessionStep =>
        LET id == sLast'.sessionId
            ref == sLast'.session
        IN IF id # NoSessionId /\ id \in DOMAIN sessions
           THEN ReturnedExisting(id, ref)
           ELSE IF id = NoSessionId
           THEN CreatedUnder(heap'[ref].id, ref) /\ FreshlyGenerated(ref)
           ELSE CreatedUnder(id, ref) /\ uuids' = uuids
    ]_vars

\* getSession was called with an id the store did not hold and returned a
\* new, empty session that carries that id
C19_Witness ==
  /\ sLast.op = "getSession"
  /\ sLast.sessionId = "session-new"
  /\ sLast.session = Len(heap)
  /\ heap[sLast.session].id = "session-new"
  /\ heap[sLast.session].history = << >>
  /\ heap[sLast.session].createdAt = now
  /\ sessions["session-new"] = sLast.session
  /\ uuids = 0

(***************************************************************************)
(* Claims about invocations that overlap, checked on ConcSpec.             *)
(***************************************************************************)
\* The session objects ever made under id
ObjectsUnder(id) == { ref \in DOMAIN heap : heap[ref].id = id }

\* The invocation called getSession and has not returned yet
InFlight(p) == inv[p].pc \notin {"idle", "returned"}

\* C20: when several invocations call getSession concurrently with the same
\* id, not yet in the store, at most one session is created for that id and
\* all of them obtain the same session object.
C20_OneSessionPerUnknownId ==
  \A p, q \in Procs :
    ( /\ inv[p].pc # "idle" /\ inv[q].pc # "idle"
      /\ inv[p].sessionId # NoSessionId
      /\ inv[p].sessionId = inv[q].sessionId ) =>
        /\ inv[p].session = inv[q].session
        /\ Cardinality(ObjectsUnder(inv[p].sessionId)) = 1
        /\ sessions[inv[p].sessionId] = inv[p].session

\* Both invocations are in flight with the id of a session that the first
\* of the two calls of getSession made
C20_Witness ==
  /\ InFlight("p1") /\ InFlight("p2")
  /\ inv["p1"].sessionId = KnownSessionId
  /\ inv["p2"].sessionId = KnownSessionId
  /\ inv["p1"].session = inv["p2"].session
  /\ heap[inv["p1"].session].createdAt = now
  /\ Len(heap) = 1

(***************************************************************************)
(* Further claims about the session store, checked on StoreSpec.           *)
(***************************************************************************)
\* The step is a call of addMessage
AddMessageStep == sLast'.op = "addMessage" /\ sLast'.appended = sLast.appended + 1

\* The step is a sweep
CleanupStep == sLast'.op = "cleanup" /\ now' = now

\* C21: addMessage with an id that is not in the store is a no-op: it
\* creates no session and leaves every existing session unchanged.
C21_AddMessageUnknownIdNoOp ==
  [][ (AddMessageStep /\ sLast'.sessionId \notin DOMAIN sessions) =>
        /\ sessions' = sessions
        /\ heap' = heap
        /\ uuids' = uuids
    ]_vars

\* addMessage was called with an id the store does not hold, beside a
\* session that holds four turns, all it was ever given
C21_Witness ==
  /\ sLast.op = "addMessage"
  /\ sLast.sessionId = "session-new"
  /\ DOMAIN sessions = {KnownSessionId}
  /\ Len(heap) = 1
  /\ Len(heap[1].history) = 8
  /\ heap[1].history = sLog[1]
  /\ heap[1].lastActivity = 0

\* The session object was touched in this step: made or returned by
\* getSession, or given a turn by addMessage
Touched(ref) ==
  \/ GetSessionStep /\ sLast'.session = ref
  \/ /\ AddMessageStep
     /\ sLast'.sessionId \in DOMAIN sessions
     /\ sessions[sLast'.sessionId] = ref

\* The time since the last touch of the session stored under id exceeds the
\* timeout
IdleTooLong(id) == now - heap[sessions[id]].lastActivity > sessionTimeoutMinutes

\* C22: every touch of a session (creation, getSession, addMessage) resets
\* its idle clock and nothing else moves it; a sweep removes exactly the
\* sessions idle for longer than the timeout and keeps the others with
\* their history unchanged.
C22_SweepRemovesExactlyExpired ==
  [][ /\ \A ref \in DOMAIN heap' :
           IF Touched(ref) THEN heap'[ref].lastActivity = now
           ELSE ref \in DOMAIN heap /\ heap'[ref].lastActivity = heap[ref].lastActivity
      /\ CleanupStep =>
           /\ DOMAIN sessions' = { id \in DOMAIN sessions : ~IdleTooLong(id) }
           /\ \A id \in DOMAIN sessions' : sessions'[id] = sessions[id]
           /\ heap' = heap
      /\ ~CleanupStep => DOMAIN sessions \subseteq DOMAIN sessions'
    ]_vars

\* A sweep removed the session idle for 31 minutes and kept the one that
\* got a turn within the timeout
C22_Witness ==
  /\ sLast.op = "cleanup"
  /\ DOMAIN sessions = {"session-new"}
  /\ Len(heap) = 2
  /\ heap[1].id = KnownSessionId
  /\ now - heap[1].lastActivity > sessionTimeoutMinutes
  /\ now - heap[2].lastActivity <= sessionTimeoutMinutes
  /\ Len(heap[2].history) = 2

(***************************************************************************)
(* Further claims about invocations that overlap, checked on ConcSpec.     *)
(***************************************************************************)
\* The turn the invocation leaves: its user message and the message of its
\* outcome
TurnOf(p) ==
  << Message("user", Str(inv[p].userMessage), now),
     Message("assistant", inv[p].outcome.message, now) >>

\* C23: when two invocations with the same session id overlap, no turn is
\* lost: once both have returned, the history of the session is what it
\* held before them followed by the turn of each, in the order they ended
\* (the window is not reached).
C23_NoTurnLostToInterleaving ==
  ( /\ Returned("p1") /\ Returned("p2")
    /\ inv["p1"].session = inv["p2"].session ) =>
      LET history == heap[inv["p1"].session].history
          held == IF heap[inv["p1"].session].createdAt < now THEN 2 ELSE 0
      IN /\ Len(history) = held + 4
         /\ \/ Newest(history, 4) = TurnOf("p1") \o TurnOf("p2")
            \/ Newest(history, 4) = TurnOf("p2") \o TurnOf("p1")

\* The two invocations overlapped in time
Overlapped == "p2" \in inv["p1"].startedBeside \/ "p1" \in inv["p2"].startedBeside

\* Two invocations on one session overlapped, the first to start went
\* through refinement and ended last; the session holds the earlier turn and
\* both of theirs
C23_Witness ==
  /\ Returned("p1") /\ Returned("p2")
  /\ "p1" \in inv["p2"].startedBeside
  /\ inv["p1"].session = inv["p2"].session
  /\ inv["p1"].sessionId = KnownSessionId
  /\ inv["p1"].phase2Executed /\ inv["p2"].terminal = "DIRECT_RESPONSE"
  /\ inv["p1"].outcome.message # inv["p2"].outcome.message
  /\ Len(heap[inv["p1"].session].history) = 6
  /\ Newest(heap[inv["p1"].session].history, 4) = TurnOf("p2") \o TurnOf("p1")

(***************************************************************************)
(* Claims about an invocation beside the sweep, checked on SweepSpec.      *)
(***************************************************************************)
\* The store no longer holds the session object the invocation obtained
Evicted(p) ==
  /\ inv[p].pc # "idle"
  /\ \/ heap[inv[p].session].id \notin DOMAIN sessions
     \/ sessions[heap[inv[p].session].id] # inv[p].session

\* The outcome has every field of an outcome that is no failure
WellFormed(p) ==
  /\ inv[p].terminal \in {"DIRECT_RESPONSE", "SYNTHESIS"}
  /\ {"message", "sessionId", "apiCallsMade", "phasesExecuted"} \subseteq DOMAIN inv[p].outcome
  /\ "error" \notin DOMAIN inv[p].outcome
  /\ inv[p].outcome.message.t = "string"
  /\ Len(inv[p].outcome.message.v) > 0
  /\ inv[p].outcome.sessionId = heap[inv[p].session].id

\* C24: if the sweep removes a session while an invocation that obtained it
\* is in flight, the invocation goes on to return, its outcome is well
\* formed, and the step that returns appends to no history and puts nothing
\* in the store.
C24_EvictionInFlightHarmless ==
  /\ \A p \in SpecProcs : (Evicted(p) /\ InFlight(p)) ~> Returned(p)
  /\ [](\A p \in SpecProcs : (Evicted(p) /\ Returned(p)) => WellFormed(p))
  /\ [][ \A p \in SpecProcs :
           (Evicted(p) /\ InFlight(p) /\ inv'[p].pc = "returned") =>
             /\ sessions' = sessions
             /\ \A ref \in DOMAIN heap : heap'[ref].history = heap[ref].history ]_vars

\* The session was swept during the refinement of the invocation, which
\* went on to SYNTHESIS; the store is empty and the history of its session
\* object is as it was
C24_Witness ==
  \E p \in SpecProcs :
    /\ Returned(p)
    /\ Evicted(p)
    /\ inv[p].terminal = "SYNTHESIS"
    /\ inv[p].phase2Executed
    /\ sessions = << >>
    /\ now - heap[inv[p].session].lastActivity > sessionTimeoutMinutes
    /\ heap[inv[p].session].history = << >>

(***************************************************************************)
(* Further claims about one invocation, checked on Spec.                   *)
(***************************************************************************)
\* Every operation of the batch has completed or failed
NoOperationPending(batch) ==
  /\ Len(batch.promises) = Len(batch.apiCalls)
  /\ \A k \in 1..Len(batch.promises) : batch.promises[k].status = "fulfilled"

\* C25: the phases of one invocation are sequential: a generation call and
\* a batch are never in flight together, and the invocation leaves
\* retrieval (for the refinement generation call or for synthesis) and
\* refinement (for synthesis) only when every operation of the batch has
\* completed or failed.
C25_PhasesSequential ==
  /\ [](\A p \in SpecProcs :
          /\ inv[p].gen # NoUpstream => inv[p].batch = NoBatch
          /\ inv[p].batch # NoBatch => inv[p].pc \in {"retrieval", "refinement"}
          /\ inv[p].pc \in {"intent", "selection", "synthesis"} => inv[p].batch = NoBatch)
  /\ [][ \A p \in SpecProcs :
           ( /\ inv[p].pc \in {"retrieval", "refinement"}
             /\ inv'[p].pc # inv[p].pc ) =>
               /\ NoOperationPending(inv[p].batch)
               /\ inv'[p].pc \in {"selection", "synthesis"}
               /\ inv'[p].executed[Len(inv'[p].executed)].apiCalls = inv[p].batch.apiCalls
               /\ Len(inv'[p].executed[Len(inv'[p].executed)].results) = Len(inv[p].batch.apiCalls) ]_vars

\* The refinement batch of two operations is in flight after a retrieval
\* batch whose operations all have a result: its second operation is back
\* before its first, and no generation call is in flight
C25_Witness ==
  \E p \in SpecProcs :
    /\ inv[p].pc = "refinement"
    /\ inv[p].gen = NoUpstream
    /\ Len(inv[p].batch.promises) = 2
    /\ inv[p].batch.promises[1] = Pending
    /\ inv[p].batch.promises[2] # Pending
    /\ Len(inv[p].executed) = 1
    /\ Len(inv[p].executed[1].results) = Len(inv[p].executed[1].apiCalls)

\* The number of operations of the batches the invocation dispatched
Dispatched(p) ==
  (IF Len(inv[p].executed) >= 1 THEN Len(inv[p].executed[1].apiCalls) ELSE 0)
  + (IF Len(inv[p].executed) >= 2 THEN Len(inv[p].executed[2].apiCalls) ELSE 0)
  + Len(inv[p].batch.apiCalls)

\* C27: one invocation dispatches at most two batches, the first in
\* retrieval and the second in refinement, each of 1 to MAX_API_CALLS (5)
\* operations, so at most 10 operations; apiCallsMade never exceeds 10.
C27_OperationsBounded ==
  \A p \in SpecProcs :
    /\ Len(inv[p].executed) + (IF inv[p].batch # NoBatch THEN 1 ELSE 0) <= 2
    /\ inv[p].pc = "retrieval" => Len(inv[p].executed) = 0
    /\ inv[p].pc = "refinement" => Len(inv[p].executed) = 1
    /\ \A k \in 1..Len(inv[p].executed) : Len(inv[p].executed[k].apiCalls) \in 1..MAX_API_CALLS
    /\ Len(inv[p].batch.apiCalls) <= MAX_API_CALLS
    /\ Dispatched(p) <= 2 * MAX_API_CALLS
    /\ Returned(p) => inv[p].outcome.apiCallsMade <= 2 * MAX_API_CALLS

\* Two batches of two operations each were dispatched and the outcome
\* counts four
C27_Witness ==
  \E p \in SpecProcs :
    /\ Returned(p)
    /\ Len(inv[p].executed) = 2
    /\ Len(inv[p].executed[1].apiCalls) = 2
    /\ Len(inv[p].executed[2].apiCalls) = 2
    /\ inv[p].outcome.apiCallsMade = 4

\* A refinement batch of six operations was refused and none was dispatched
C27_WitnessRefused ==
  \E p \in SpecProcs :
    /\ Returned(p)
    /\ Len(inv[p].selectionCalls) = MAX_API_CALLS + 1
    /\ inv[p].refinementFailure = "validation"
    /\ Len(inv[p].executed) = 1

\* The interpretation returned text that holds a direct reply: text that
\* is no batch of calls, or a batch with a direct_response that is text
YieldsDirectTextReply(p) ==
  /\ Len(inv[p].replies) >= 1
  /\ inv[p].replies[1].ok
  /\ LET text == inv[p].replies[1].value
     IN \/ NotStructuredBatch(text) /\ text.parsed.t # "null" /\ Len(text.raw) > 0
        \/ /\ ~NotStructuredBatch(text)
           /\ text.parsed.direct_response.t = "string"
           /\ Len(text.parsed.direct_response.v) > 0

\* That reply
DirectReply(p) ==
  LET text == inv[p].replies[1].value
  IN IF NotStructuredBatch(text) THEN text.raw ELSE text.parsed.direct_response.v

\* C28: when the interpretation yields a direct text reply, the invocation
\* makes no data-source call and no further generation call: it has
\* returned, with apiCallsMade = 0, phasesExecuted = [direct_response] and a
\* non-empty message equal to the reply.
C28_DirectReplyEndsInvocation ==
  \A p \in SpecProcs :
    YieldsDirectTextReply(p) =>
      /\ Returned(p)
      /\ inv[p].terminal = "DIRECT_RESPONSE"
      /\ inv[p].genCalls = << "intent" >>
      /\ inv[p].executed = << >>
      /\ inv[p].batch = NoBatch
      /\ "error" \notin DOMAIN inv[p].outcome
      /\ inv[p].outcome.apiCallsMade = 0
      /\ inv[p].outcome.phasesExecuted = << "direct_response" >>
      /\ inv[p].outcome.message = Str(DirectReply(p))
      /\ Len(DirectReply(p)) > 0

\* The interpretation answered with JSON that holds no list of calls, and
\* that text is the message of the outcome
C28_Witness ==
  \E p \in SpecProcs :
    /\ YieldsDirectTextReply(p)
    /\ inv[p].replies[1].value.parsed.t = "object"
    /\ Returned(p)
    /\ inv[p].outcome.message = Str(inv[p].replies[1].value.raw)
    /\ inv[p].outcome.apiCallsMade = 0

\* C29: when refinement runs, phasesExecuted has three phases and
\* recipeDataFound counts the full records obtained by the refinement
\* lookups, not the filter-style records of the first pass.
C29_RecordsFoundCountsLookups ==
  \A p \in SpecProcs :
    (Returned(p) /\ inv[p].phase2Executed) =>
      /\ Len(inv[p].outcome.phasesExecuted) = 3
      /\ inv[p].outcome.recipeDataFound = Len(AllRecords(inv[p].executed[2].results, 1))

\* One filter operation returned five filter-style records, three lookups
\* returned one full record each, and recipeDataFound is eight
C29_Witness ==
  \E p \in SpecProcs :
    /\ Returned(p)
    /\ inv[p].phase2Executed
    /\ Len(inv[p].executed[1].apiCalls) = 1
    /\ Len(AllRecords(inv[p].executed[1].results, 1)) = 5
    /\ FilterStyle(inv[p].executed[1].results[1])
    /\ Len(inv[p].executed[2].apiCalls) = 3
    /\ Len(AllRecords(inv[p].executed[2].results, 1)) = 3
    /\ inv[p].outcome.phasesExecuted = << "intent_analysis", "recipe_selection", "synthesis" >>
    /\ inv[p].outcome.recipeDataFound = 8

\* C30: in every outcome that is not flagged as an error, apiCallsMade is
\* the number of data-source operations the invocation attempted, failed
\* ones included: the size of the retrieval batch plus the size of the
\* refinement batch when one was executed.
C30_ApiCallsMadeCountsAttempts ==
  \A p \in SpecProcs :
    (Returned(p) /\ "error" \notin DOMAIN inv[p].outcome) =>
      /\ inv[p].batch = NoBatch
      /\ inv[p].outcome.apiCallsMade = Dispatched(p)
      /\ inv[p].terminal = "DIRECT_RESPONSE" => inv[p].executed = << >>
      /\ inv[p].terminal = "SYNTHESIS" =>
           Len(inv[p].executed) = (IF inv[p].phase2Executed THEN 2 ELSE 1)

\* One filter operation and three lookups, one of which failed: the
\* outcome counts four
C30_Witness ==
  \E p \in SpecProcs :
    /\ Returned(p)
    /\ inv[p].terminal = "SYNTHESIS"
    /\ Len(inv[p].executed) = 2
    /\ Len(inv[p].executed[1].apiCalls) = 1
    /\ Len(inv[p].executed[2].apiCalls) = 3
    /\ \E k \in 1..3 : HasError(inv[p].executed[2].results[k])
    /\ inv[p].outcome.apiCallsMade = 4

\* Both operations of a retrieval batch of two failed: synthesis ran on an
\* empty set and the outcome counts two
C30_WitnessAllFailed ==
  \E p \in SpecProcs :
    /\ Returned(p)
    /\ inv[p].terminal = "SYNTHESIS"
    /\ Len(inv[p].executed) = 1
    /\ Len(inv[p].executed[1].apiCalls) = 2
    /\ \A k \in 1..2 : HasError(inv[p].executed[1].results[k])
    /\ inv[p].allMealData = << >>
    /\ inv[p].outcome.apiCallsMade = 2

(***************************************************************************)
(* The outer deadline of a request, checked on DeadlineSpec.               *)
(***************************************************************************)
\* C26: once the outer deadline of a request has expired, the invocation
\* enters no further phase: it starts no new generation call, dispatches no
\* new batch and appends nothing to the session.
C26_NoPhaseAfterDeadline ==
  [][ \A p \in SpecProcs :
        inv[p].timedOut =>
          /\ Len(inv'[p].genCalls) = Len(inv[p].genCalls)
          /\ inv'[p].batch # NoBatch => inv[p].batch # NoBatch
          /\ \A ref \in DOMAIN heap : heap'[ref].history = heap[ref].history
    ]_vars

\* The deadline expired during the refinement generation call; the
\* invocation then dispatched the refinement batch, made the synthesis call
\* and appended its turn
C26_Witness ==
  \E p \in SpecProcs :
    /\ inv[p].timedOut
    /\ Returned(p)
    /\ inv[p].terminal = "SYNTHESIS"
    /\ inv[p].phase2Executed
    /\ Len(inv[p].executed) = 2
    /\ Len(heap[inv[p].session].history) >= 2
    /\ heap[inv[p].session].history[Len(heap[inv[p].session].history)].content = inv[p].outcome.message

\* ---------------------------------------------------------------------------
\* The retrieval batch fails as a whole
\* ---------------------------------------------------------------------------

AllRetrievalFailed(p) ==
  /\ PastRetrieval(p)
  /\ \A k \in 1..Len(inv[p].executed[1].upstream) :
        UpstreamFails(inv[p].executed[1].upstream[k])

\* C31: when every operation of the retrieval batch fails, executeBatch
\* returns one failure per operation, the refinement phase is skipped (no
\* selection generation call, no second batch), synthesis runs on an empty
\* set of results, the outcome is not an error, and when the synthesis
\* generation call fails too the text is the no-recipes-found message.
C31_AllFailedEndsInFallback ==
  \A p \in SpecProcs :
    AllRetrievalFailed(p) =>
      /\ Len(inv[p].executed[1].results) = Len(inv[p].executed[1].apiCalls)
      /\ \A k \in 1..Len(inv[p].executed[1].results) :
            /\ HasError(inv[p].executed[1].results[k])
            /\ inv[p].executed[1].results[k].endpoint =
                 inv[p].executed[1].apiCalls[k].endpoint
      /\ inv[p].pc \in {"synthesis", "returned"}
      /\ \A k \in 1..Len(inv[p].genCalls) : inv[p].genCalls[k] # "selection"
      /\ Len(inv[p].executed) = 1
      /\ ~inv[p].phase2Executed
      /\ inv[p].allMealData = << >>
      /\ Returned(p) =>
            /\ inv[p].terminal = "SYNTHESIS"
            /\ "error" \notin DOMAIN inv[p].outcome
            /\ SynthesisFailed(p) =>
                  includes(inv[p].outcome.message.v, "couldn't find any recipes")

C31_Witness ==
  \E p \in SpecProcs :
    /\ AllRetrievalFailed(p)
    /\ Len(inv[p].executed[1].apiCalls) = 2
    /\ Returned(p)
    /\ SynthesisFailed(p)
    /\ inv[p].outcome.message = Str(NoRecipesMessage)

\* ---------------------------------------------------------------------------
\* Markup in the message of a chat request
\* ---------------------------------------------------------------------------

\* The message holds a script element: an opening tag and, after it, a
\* closing tag
ContainsScriptElement(body) ==
  /\ body.t = "string"
  /\ \E i \in 1..(Len(body.v) - 6) :
       /\ toLowerCase(SubSeq(body.v, i, i + 6)) = "<script"
       /\ \E k \in (i + 7)..(Len(body.v) - 8) :
            toLowerCase(SubSeq(body.v, k, k + 8)) = "</script>"

\* The store as it was before any request
StoreUntouched ==
  /\ \A ref \in 1..Len(heap) :
       /\ heap[ref].lastActivity = 0
       /\ Len(heap[ref].history) = 2
       /\ heap[ref].lastMealData = Null
  /\ DOMAIN sessions \subseteq {KnownSessionId}
  /\ uuids = 0

\* C32: a chat request whose message holds a script element is answered
\* with the validation error SECURITY_VIOLATION and goes no further:
\* processRequest is not invoked, no session is created or changed, and
\* no generation call and no data-source call is made.
C32_ScriptElementRejected ==
  \A p \in SpecProcs :
    ContainsScriptElement(inv[p].chat.body) =>
      /\ inv[p].chat.status = 400
      /\ inv[p].chat.code = "SECURITY_VIOLATION"
      /\ inv[p].pc = "idle"
      /\ inv[p].genCalls = << >>
      /\ inv[p].executed = << >>
      /\ StoreUntouched

\* A script element broken over several lines went through the pipeline
C32_Witness ==
  \E p \in SpecProcs :
    /\ inv[p].chat.body = Str("<script>\nalert(1)\n</script>")
    /\ inv[p].chat.code = "none"
    /\ Returned(p)
    /\ inv[p].userMessage = "<script>\nalert(1)\n</script>"
    /\ Len(inv[p].genCalls) >= 1
    /\ Len(heap[inv[p].session].history) >= 2

\* A script element on one line, in a message of at most 500 characters, is
\* refused with SECURITY_VIOLATION and nothing else happens
C32_WitnessRefused ==
  \E p \in SpecProcs :
    /\ inv[p].chat.body = Str("try <SCRIPT src=x>y</Script> now")
    /\ inv[p].chat.status = 400
    /\ inv[p].chat.code = "SECURITY_VIOLATION"
    /\ inv[p].pc = "idle"
    /\ inv[p].genCalls = << >>
    /\ StoreUntouched

\* A script element in a message over 500 characters is refused as too long
C32_WitnessTooLong ==
  \E p \in SpecProcs :
    /\ ContainsScriptElement(inv[p].chat.body)
    /\ Len(inv[p].chat.body.v) > MAX_MESSAGE_LENGTH
    /\ inv[p].chat.status = 400
    /\ inv[p].chat.code = "MESSAGE_TOO_LONG"
    /\ inv[p].pc = "idle"

\* ---------------------------------------------------------------------------
\* Failures in the working set of results
\* ---------------------------------------------------------------------------

\* The results stored in a session as its last results
StoredResults(ref) ==
  IF heap[ref].lastMealData = Null THEN << >> ELSE heap[ref].lastMealData.v

\* C33: the failures of both batches are dropped: the working set of
\* results stored in the session and handed to the synthesis holds
\* successful results only (those of the retrieval and those of the
\* refinement), never a result that carries the error marker.
C33_WorkingSetHasNoFailure ==
  \A p \in SpecProcs :
    /\ \A k \in 1..Len(inv[p].allMealData) : ~HasError(inv[p].allMealData[k])
    /\ inv[p].session \in 1..Len(heap) =>
         \A k \in 1..Len(StoredResults(inv[p].session)) :
            ~HasError(StoredResults(inv[p].session)[k])

\* A failed lookup of the refinement batch is in the set the synthesis got
\* and in the session, while the failures of the retrieval batch are not
C33_Witness ==
  \E p \in SpecProcs :
    /\ Returned(p)
    /\ inv[p].terminal = "SYNTHESIS"
    /\ Len(inv[p].executed) = 2
    /\ \E k \in 1..Len(inv[p].executed[1].results) : HasError(inv[p].executed[1].results[k])
    /\ \A k \in 1..Len(inv[p].successfulData) : ~HasError(inv[p].successfulData[k])
    /\ \E k \in 1..Len(inv[p].detailData) : HasError(inv[p].detailData[k])
    /\ \E k \in 1..Len(inv[p].allMealData) : HasError(inv[p].allMealData[k])
    /\ heap[inv[p].session].lastMealData = Arr(inv[p].allMealData)

\* ---------------------------------------------------------------------------
\* The apology of the error boundary
\* ---------------------------------------------------------------------------

\* The first generation call failed with an error whose text holds the word
FirstCallFailedWith(p, word) ==
  /\ GenerationFailed(p, 1)
  /\ includes(inv[p].replies[1].error.message, word)

\* C34: the apology of the error boundary matches the kind of failure: a
\* rejection of the interpretation batch by the validator gives the
\* validation text, an unavailable upstream the unavailability text, a
\* timed-out call the timeout text, and anything else the generic text.
C34_ApologyMatchesFailure ==
  \A p \in SpecProcs :
    Returned(p) /\ inv[p].terminal = "ERROR" =>
      LET text == inv[p].outcome.message.v
      IN IF inv[p].caught.name = "ValidationError"
           THEN includes(text, "issue with your request")
         ELSE IF FirstCallFailedWith(p, "unavailable")
           THEN includes(text, "technical difficulties")
         ELSE IF FirstCallFailedWith(p, "timeout")
           THEN includes(text, "taking longer than expected")
         ELSE includes(text, "I encountered an error")

\* The validator refused the interpretation batch and the apology is the
\* generic one
C34_Witness ==
  \E p \in SpecProcs :
    /\ Returned(p)
    /\ inv[p].terminal = "ERROR"
    /\ inv[p].caught.name = "ValidationError"
    /\ inv[p].intentBatch.t = "array"
    /\ ~validateApiCalls(inv[p].intentBatch.v).ok
    /\ inv[p].executed = << >>
    /\ includes(inv[p].outcome.message.v, "I encountered an error")

\* The other three kinds get their text
C34_WitnessTimeout ==
  \E p \in SpecProcs :
    /\ Returned(p)
    /\ inv[p].terminal = "ERROR"
    /\ FirstCallFailedWith(p, "timeout")
    /\ includes(inv[p].outcome.message.v, "taking longer than expected")

C34_WitnessUnavailable ==
  \E p \in SpecProcs :
    /\ Returned(p)
    /\ inv[p].terminal = "ERROR"
    /\ FirstCallFailedWith(p, "unavailable")
    /\ includes(inv[p].outcome.message.v, "technical difficulties")

\* Apart from the validator's rejections every apology matches
C34_OthersMatch ==
  \A p \in SpecProcs :
    Returned(p) /\ inv[p].terminal = "ERROR" /\ inv[p].caught.name # "ValidationError" =>
      LET text == inv[p].outcome.message.v
      IN IF FirstCallFailedWith(p, "unavailable")
           THEN includes(text, "technical difficulties")
         ELSE IF FirstCallFailedWith(p, "timeout")
           THEN includes(text, "taking longer than expected")
         ELSE includes(text, "I encountered an error")

\* ---------------------------------------------------------------------------
\* Responses of the data source without records
\* ---------------------------------------------------------------------------

\* The answer of the data source to call k of the batch: no payload, or a
\* payload whose meals field is null; a payload whose meals field is absent;
\* a payload whose meals field is neither null nor an array
NoPayloadOrNullField(k) ==
  /\ bBatch.upstream[k].kind = "body"
  /\ \/ bBatch.upstream[k].data.t # "object"
     \/ bBatch.upstream[k].data.meals.t = "null"

AbsentField(k) ==
  /\ bBatch.upstream[k].kind = "body"
  /\ bBatch.upstream[k].data.t = "object"
  /\ bBatch.upstream[k].data.meals.t = "undefined"

OtherShape(k) ==
  /\ bBatch.upstream[k].kind = "body"
  /\ bBatch.upstream[k].data.t = "object"
  /\ bBatch.upstream[k].data.meals.t \notin {"null", "undefined", "array"}

\* An empty result: no records, flagged empty, no raw payload
EmptyResult(result) ==
  /\ result.meals = Null
  /\ result.isEmpty
  /\ "rawData" \notin DOMAIN result

\* An unexpected-format result that carries the payload
UnexpectedResult(result, data) ==
  /\ result.meals = Null
  /\ result.isEmpty
  /\ result.message = "Unexpected response format from MealDB"
  /\ "rawData" \in DOMAIN result
  /\ result.rawData = data

\* The result is among those the filter of failures keeps
CountedSuccessful(result) ==
  /\ ~HasError(result)
  /\ \E k \in 1..Len(WithoutErrors(bResults)) : WithoutErrors(bResults)[k] = result

\* C35: a response without payload or whose result field is null is an
\* empty result; a response whose result field is absent, or of any shape
\* other than null or an array, is an unexpected-format result carrying the
\* raw payload; none is a failure: each is returned without the error
\* marker and is kept by the filter of failures.
C35_EmptyAndUnexpectedAreNotFailures ==
  bPc = "returned" =>
    \A k \in 1..Len(bResults) :
      /\ NoPayloadOrNullField(k) =>
           EmptyResult(bResults[k]) /\ CountedSuccessful(bResults[k])
      /\ AbsentField(k) \/ OtherShape(k) =>
           /\ UnexpectedResult(bResults[k], bBatch.upstream[k].data)
           /\ CountedSuccessful(bResults[k])

C35_Witness ==
  /\ bPc = "returned"
  /\ Len(bResults) = 3
  /\ NoPayloadOrNullField(1) /\ bBatch.upstream[1].data.t = "object"
  /\ AbsentField(2)
  /\ OtherShape(3)
  /\ EmptyResult(bResults[1])
  /\ UnexpectedResult(bResults[2], bBatch.upstream[2].data)
  /\ UnexpectedResult(bResults[3], bBatch.upstream[3].data)
  /\ Len(WithoutErrors(bResults)) = 3

\* C35 as stated: a response whose result field is null or absent is an
\* empty result, any other shape an unexpected-format result.
C35_AbsentFieldIsEmptyResult ==
  bPc = "returned" =>
    \A k \in 1..Len(bResults) :
      /\ NoPayloadOrNullField(k) \/ AbsentField(k) =>
           EmptyResult(bResults[k]) /\ CountedSuccessful(bResults[k])
      /\ OtherShape(k) =>
           /\ UnexpectedResult(bResults[k], bBatch.upstream[k].data)
           /\ CountedSuccessful(bResults[k])

\* ---------------------------------------------------------------------------
\* The shape of a history
\* ---------------------------------------------------------------------------

\* The history is made of pairs: a user message, then an assistant message
Alternates(history) ==
  /\ Len(history) % 2 = 0
  /\ \A k \in 1..Len(history) :
       history[k].role = IF k % 2 = 1 THEN "user" ELSE "assistant"

\* C36: the history of every session has an even length and alternates
\* user and assistant messages, starting with a user message, and every
\* user message is immediately followed by the assistant message appended
\* by the same call, whatever the order of the calls on the store and also
\* once the window has been trimmed.
C36_HistoryIsPairsOfOneCall ==
  \A ref \in 1..Len(heap) :
    /\ Alternates(heap[ref].history)
    /\ \A k \in 1..Len(heap[ref].history) :
         k % 2 = 1 =>
           \E n \in 1..(maxConversationLength + MaxAppends) :
              << heap[ref].history[k], heap[ref].history[k + 1] >>
                 = Turn(n, heap[ref].history[k].timestamp)

\* A history that was trimmed: the first turn went, the pairs stayed whole
C36_Witness ==
  \E ref \in 1..Len(heap) :
    /\ Len(sLog[ref]) = 2 * maxConversationLength + 2
    /\ Len(heap[ref].history) = 2 * maxConversationLength
    /\ heap[ref].history[1].content = Str("question 2")
    /\ heap[ref].history[2].content = Str("answer 2")
    /\ heap[ref].history[2 * maxConversationLength].content = Str("answer 11")
    /\ Len(heap) = 2

\* The same shape beside overlapping invocations: each pair of a history is
\* the pair the store started with or the request and the reply of one
\* invocation
C36_PairsAcrossInvocations ==
  \A ref \in 1..Len(heap) :
    /\ Alternates(heap[ref].history)
    /\ \A k \in 1..Len(heap[ref].history) :
         k % 2 = 1 =>
           \/ heap[ref].history[k].content = Str("hello") /\ heap[ref].history[k].timestamp = 0
           \/ \E p \in Procs :
                /\ Returned(p)
                /\ inv[p].session = ref
                /\ heap[ref].history[k].content = Str(inv[p].userMessage)
                /\ heap[ref].history[k + 1].content = inv[p].outcome.message

\* ---------------------------------------------------------------------------
\* A session past the timeout that the sweep has not met yet
\* ---------------------------------------------------------------------------

\* C37: a session leaves the store through the sweep only: a session that
\* has been idle for longer than the timeout and was not swept yet is
\* still what getSession returns, with its whole history, and the call
\* sets its last activity to the present, so that a sweep that follows
\* within the timeout keeps it.
C37_ExpiredButUnsweptIsRevived ==
  [][ \A id \in DOMAIN sessions :
        /\ id \notin DOMAIN sessions' => CleanupStep /\ IdleTooLong(id)
        /\ (GetSessionStep /\ sLast'.sessionId = id /\ IdleTooLong(id)) =>
             /\ sLast'.session = sessions[id]
             /\ sessions' = sessions
             /\ Len(heap') = Len(heap)
             /\ heap'[sessions[id]].history = heap[sessions[id]].history
             /\ heap'[sessions[id]].createdAt = heap[sessions[id]].createdAt
             /\ heap'[sessions[id]].lastActivity = now
        /\ (CleanupStep /\ now - heap[sessions[id]].lastActivity <= sessionTimeoutMinutes) =>
             /\ id \in DOMAIN sessions'
             /\ sessions'[id] = sessions[id]
    ]_vars

\* A session with a history, asked for after more than the timeout and then
\* met by the sweep, is in the store with its history
C37_Witness ==
  /\ sLast.op = "cleanup"
  /\ sLast.revived = KnownSessionId
  /\ sLast.appended = 0
  /\ KnownSessionId \in DOMAIN sessions
  /\ heap[sessions[KnownSessionId]].createdAt = 0
  /\ heap[sessions[KnownSessionId]].lastActivity = now
  /\ now > sessionTimeoutMinutes
  /\ Len(heap[sessions[KnownSessionId]].history) = 2 * (maxConversationLength - 1)

\* ---------------------------------------------------------------------------
\* The phases an outcome reports
\* ---------------------------------------------------------------------------

\* The selection generation call was made
SelectionAsked(p) == \E k \in 1..Len(inv[p].genCalls) : inv[p].genCalls[k] = "selection"

\* A non-empty refinement batch passed validation and was executed
RefinementExecuted(p) ==
  /\ SelectionAsked(p)
  /\ Len(inv[p].selectionCalls) > 0
  /\ validateApiCalls(inv[p].selectionCalls).ok
  /\ Len(inv[p].executed) = 2
  /\ inv[p].executed[2].apiCalls = inv[p].selectionCalls
  /\ Len(inv[p].executed[2].results) = Len(inv[p].selectionCalls)

\* C38: the phases of an outcome that is neither an error nor a direct
\* answer hold recipe_selection exactly when a non-empty refinement batch
\* passed validation and was executed; when the selection was asked for
\* but its batch was empty or failed validation, the phases are
\* intent_analysis and synthesis and apiCallsMade counts the retrieval
\* batch only.
C38_SelectionPhaseIffRefinementExecuted ==
  \A p \in SpecProcs :
    Returned(p) /\ inv[p].terminal = "SYNTHESIS" =>
      /\ IF RefinementExecuted(p)
           THEN inv[p].outcome.phasesExecuted
                  = << "intent_analysis", "recipe_selection", "synthesis" >>
           ELSE inv[p].outcome.phasesExecuted = << "intent_analysis", "synthesis" >>
      /\ ( /\ SelectionAsked(p)
           /\ \/ Len(inv[p].selectionCalls) = 0
              \/ ~validateApiCalls(inv[p].selectionCalls).ok ) =>
           /\ inv[p].outcome.phasesExecuted = << "intent_analysis", "synthesis" >>
           /\ Len(inv[p].executed) = 1
           /\ inv[p].outcome.apiCallsMade = Len(inv[p].executed[1].apiCalls)

\* The selection was asked for and its batch failed validation
C38_Witness ==
  \E p \in SpecProcs :
    /\ Returned(p)
    /\ inv[p].terminal = "SYNTHESIS"
    /\ SelectionAsked(p)
    /\ Len(inv[p].selectionCalls) > 0
    /\ ~validateApiCalls(inv[p].selectionCalls).ok
    /\ inv[p].outcome.phasesExecuted = << "intent_analysis", "synthesis" >>
    /\ inv[p].outcome.apiCallsMade = Len(inv[p].executed[1].apiCalls)

\* The selection was asked for and its batch was empty
C38_WitnessEmpty ==
  \E p \in SpecProcs :
    /\ Returned(p)
    /\ inv[p].terminal = "SYNTHESIS"
    /\ SelectionAsked(p)
    /\ inv[p].refinementFailure = "none"
    /\ Len(inv[p].selectionCalls) = 0
    /\ inv[p].outcome.phasesExecuted = << "intent_analysis", "synthesis" >>

\* The refinement batch was executed
C38_WitnessExecuted ==
  \E p \in SpecProcs :
    /\ Returned(p)
    /\ RefinementExecuted(p)
    /\ inv[p].outcome.phasesExecuted = << "intent_analysis", "recipe_selection", "synthesis" >>
    /\ inv[p].outcome.apiCallsMade
         = Len(inv[p].executed[1].apiCalls) + Len(inv[p].executed[2].apiCalls)

\* ---------------------------------------------------------------------------
\* The fallback selection as a refinement batch
\* ---------------------------------------------------------------------------

\* The refinement used the fallback selection
FallbackSelectionUsed(p) == inv[p].refinementFailure \in {"generation", "unusable"}

\* C39: whenever the refinement is entered and falls back on the first
\* records, the fallback batch holds between 1 and 3 lookups by numeric id
\* and validateApiCalls accepts it, so the lookups are dispatched and the
\* outcome reports recipe_selection.
C39_FallbackSelectionIsExecuted ==
  \A p \in SpecProcs :
    FallbackSelectionUsed(p) =>
      /\ Len(inv[p].selectionCalls) \in 1..3
      /\ \A k \in 1..Len(inv[p].selectionCalls) :
           /\ inv[p].selectionCalls[k].endpoint = Str("lookup.php")
           /\ inv[p].selectionCalls[k].params.i.t = "string"
           /\ IsNumericString(inv[p].selectionCalls[k].params.i.v)
      /\ validateApiCalls(inv[p].selectionCalls).ok
      /\ inv[p].pc \in {"refinement", "synthesis", "returned"}
      /\ inv[p].pc = "refinement" => inv[p].batch.apiCalls = inv[p].selectionCalls
      /\ inv[p].pc \in {"synthesis", "returned"} =>
           /\ Len(inv[p].executed) = 2
           /\ inv[p].executed[2].apiCalls = inv[p].selectionCalls
           /\ Len(inv[p].executed[2].upstream) = Len(inv[p].selectionCalls)
      /\ Returned(p) =>
           /\ inv[p].terminal = "SYNTHESIS"
           /\ inv[p].outcome.phasesExecuted
                = << "intent_analysis", "recipe_selection", "synthesis" >>

\* The selection call failed, two records were at hand and both lookups ran
C39_Witness ==
  \E p \in SpecProcs :
    /\ Returned(p)
    /\ FallbackSelectionUsed(p)
    /\ Len(inv[p].replies) >= 2 /\ ~inv[p].replies[2].ok
    /\ Len(inv[p].selectionCalls) = 2
    /\ Len(inv[p].executed) = 2
    /\ inv[p].outcome.phasesExecuted = << "intent_analysis", "recipe_selection", "synthesis" >>
    /\ inv[p].outcome.apiCallsMade = Len(inv[p].executed[1].apiCalls) + 2

\* The selection text was no batch and three lookups ran
C39_WitnessUnusable ==
  \E p \in SpecProcs :
    /\ Returned(p)
    /\ inv[p].refinementFailure = "unusable"
    /\ Len(inv[p].selectionCalls) = 3
    /\ Len(inv[p].executed) = 2
    /\ inv[p].phase2Executed

============================================================================
